---------------------------- MODULE Spec2Model ----------------------------
(* Usage-collection and cost-aggregation pipeline of the LLM cost tracker:  *)
(* the provider adapters' getCosts (OpenAI window chunking, paginated fetch *)
(* with retry, aggregation, pricing), written as a state machine whose      *)
(* steps are the code between two awaits.                                   *)
(* Money is counted in units of 10^-8 USD, so that                          *)
(*   (tokens / 1,000,000) * price  =  tokens * (price in cents)             *)
(* is exact integer arithmetic.                                             *)
EXTENDS Integers, Sequences, FiniteSets, TLC

(***************************************************************************)
(* Program constants                                                       *)
(***************************************************************************)
SECONDS_PER_DAY == 86400
MAX_DAYS_PER_REQUEST == 30
MAX_SECONDS_PER_REQUEST == MAX_DAYS_PER_REQUEST * SECONDS_PER_DAY
MAX_PAGES_PER_CHUNK == 50
MAX_ATTEMPTS == 3
BACKOFF_BASE_MS == 2000

(***************************************************************************)
(* Bounds of the model                                                     *)
(***************************************************************************)
\* largest number of 30-day windows of a query of the pipeline
MaxWindows == 3
\* largest number of pages of a window with an ordinary (short) listing
MaxPages == 2
\* SpecChunk: largest number of whole 30-day windows in a range
MaxChunks == 3

(***************************************************************************)
(* JavaScript values.  An optional value is <<>> (undefined / null) or     *)
(* <<v>>.                                                                  *)
(***************************************************************************)
Undefined == <<>>
Some(v) == <<v>>

\* x || d  for a number: undefined and 0 are falsy
OrNum(x, d) == IF x = Undefined \/ x[1] = 0 THEN d ELSE x[1]
\* x || d  for a string: undefined and '' are falsy
OrStr(x, d) == IF x = Undefined \/ x[1] = "" THEN d ELSE x[1]

Min(a, b) == IF a < b THEN a ELSE b

(***************************************************************************)
(* Time-window chunking: the while loop of getCosts.                       *)
(***************************************************************************)
\* a faulty variant: every window is MAX_SECONDS_PER_REQUEST long
RECURSIVE ChunksFrom_Unclamped(_, _)
ChunksFrom_Unclamped(chunkStart, endTs) ==
    IF chunkStart < endTs
    THEN <<[start |-> chunkStart, end |-> chunkStart + MAX_SECONDS_PER_REQUEST]>>
             \o ChunksFrom_Unclamped(chunkStart + MAX_SECONDS_PER_REQUEST, endTs)
    ELSE <<>>

RECURSIVE ChunksFrom(_, _)
ChunksFrom(chunkStart, endTs) ==
    IF chunkStart < endTs
    THEN LET chunkEnd == Min(chunkStart + MAX_SECONDS_PER_REQUEST, endTs)
         IN  <<[start |-> chunkStart, end |-> chunkEnd]>>
                 \o ChunksFrom(chunkEnd, endTs)
    ELSE <<>>

\* a faulty variant: a do-while loop, which builds one window for any range
TimeChunks_DoWhile(startTs, endTs) ==
    IF startTs < endTs THEN ChunksFrom(startTs, endTs)
    ELSE <<[start |-> startTs, end |-> endTs]>>

TimeChunks(startTs, endTs) == ChunksFrom(startTs, endTs)

\* A Date is a day since the epoch and the milliseconds into that day;
\* new Date('YYYY-MM-DD') is UTC midnight of the day.
Midnight(day) == [day |-> day, ms |-> 0]

\* Math.floor(new Date(date).getTime() / 1000)
ToTimestamp(date) == date.day * SECONDS_PER_DAY + (date.ms \div 1000)

(***************************************************************************)
(* The upstream usage listing (GET /organization/usage/completions).       *)
(* A result of a bucket: model, input_tokens, output_tokens and            *)
(* num_model_requests, each of which the upstream may leave out.  A bucket *)
(* of the 'data' list is a wrapper with a 'results' list, a flat object    *)
(* that is itself one result, or an object with neither.                   *)
(***************************************************************************)
UsageEntry(m, i, o, r) ==
    [model |-> m, input_tokens |-> i, output_tokens |-> o, num_model_requests |-> r]

WrapperBucket(results) ==
    [results |-> Some(results), model |-> Undefined, input_tokens |-> Undefined,
     output_tokens |-> Undefined, num_model_requests |-> Undefined]

FlatBucket(e) ==
    [results |-> Undefined, model |-> e.model, input_tokens |-> e.input_tokens,
     output_tokens |-> e.output_tokens, num_model_requests |-> e.num_model_requests]

EmptyBucket ==
    [results |-> Undefined, model |-> Undefined, input_tokens |-> Undefined,
     output_tokens |-> Undefined, num_model_requests |-> Undefined]

Entries ==
    [ A |-> UsageEntry(Some("gpt-4o"), Some(100), Some(50), Some(1)),
      B |-> UsageEntry(Some("gpt-4o-2024-11-20"), Some(1000000), Some(500000), Some(2)),
      NoModel |-> UsageEntry(Undefined, Some(10), Some(5), Some(1)),
      Mini |-> UsageEntry(Some("gpt-4o-mini"), Some(200), Undefined, Some(3)),
      New |-> UsageEntry(Some("gpt-5"), Some(40), Some(20), Undefined),
      Embed |-> UsageEntry(Some("text-embedding-3-small"), Some(1000), Some(0), Some(4)),
      Dated |-> UsageEntry(Some("gpt-3.5-turbo-16k"), Some(0), Some(30), Some(1)),
      Blank |-> UsageEntry(Some(""), Some(7), Some(0), Some(1)) ]

\* the buckets the upstream serves, cyclically
BucketTable ==
    << WrapperBucket(<<Entries.A, Entries.NoModel>>),
       FlatBucket(Entries.Mini),
       WrapperBucket(<<Entries.New, Entries.A>>),
       EmptyBucket,
       FlatBucket(Entries.NoModel),
       WrapperBucket(<<Entries.Embed, Entries.Dated, Entries.Blank>>),
       WrapperBucket(<<>>) >>

BucketAt(k) == BucketTable[(k % Len(BucketTable)) + 1]

\* the 'data' list of page p of window w in data set seed
PageData(seed, w, p) ==
    IF seed = 0 /\ w = 1 /\ p = 1
    THEN << WrapperBucket(<<Entries.A, Entries.B>>) >>
    ELSE IF (seed + p) % 2 = 0
         THEN << BucketAt(3 * seed + 2 * w + p) >>
         ELSE << BucketAt(3 * seed + 2 * w + p), BucketAt(seed + w + 3 * p) >>

\* whether the body of that page has a 'data' list at all
PageHasData(seed, w, p) == ~ (seed = 1 /\ p = 2)

\* continuation tokens are opaque to the client: the upstream names the page
PageToken(w, p) == [w |-> w, p |-> p]

\* the window a request is about, and the page it asks for
WindowOf(req, startTs) ==
    ((req.start_time - startTs) \div MAX_SECONDS_PER_REQUEST) + 1

PageOf(req) == IF req.page = Undefined THEN 1 ELSE req.page[1].p

\* the body of a successful answer to req, when window w has n pages
UpstreamBody(seed, n, w, p) ==
    [data |-> IF PageHasData(seed, w, p) THEN Some(PageData(seed, w, p)) ELSE Undefined,
     has_more |-> p < n,
     next_page |-> IF p < n THEN Some(PageToken(w, p + 1)) ELSE Undefined]

(***************************************************************************)
(* Failures of one request.  fetchOpenAI throws                            *)
(*   'OpenAI API permission denied (403). ... Error details: <body>' or    *)
(*   'OpenAI API error (<status>): <body>',                                *)
(* fetch itself throws on a timeout or a network failure, response.json()  *)
(* on a body that is no JSON, getApiKey when the key is not configured.    *)
(* A 200 answer whose body is the JSON value null is parsed, and the read  *)
(* of data.data that follows throws a TypeError inside the try block       *)
(* ("nullbody").                                                           *)
(* body says which of the substrings the retry loop looks for the error    *)
(* body holds.                                                             *)
(***************************************************************************)
HttpStatuses == {401, 403, 404, 429, 500, 503}
BodyTexts == {"plain", "has404", "has503"}

\* the statuses whose error body is tried with each of the texts
StatusesWithText == {401, 500, 503}

Failures ==
    {f \in [kind : {"http"}, status : HttpStatuses, body : BodyTexts] :
        f.body = "plain" \/ f.status \in StatusesWithText}
        \cup [kind : {"timeout", "network", "parse", "nullbody", "nokey"}, status : {0}, body : {"plain"}]

\* errorMsg.includes(s) for the message fetchOpenAI (or fetch) throws
MsgIncludes(f, s) ==
    CASE s = "404" -> (f.kind = "http" /\ f.status = 404) \/ f.body = "has404"
      [] s = "403" -> f.kind = "http" /\ f.status = 403
      [] s = "503" -> (f.kind = "http" /\ f.status = 503) \/ f.body = "has503"
      [] s = "timeout" -> f.kind = "timeout"
      [] OTHER -> FALSE

\* a faulty variant: the third failure is retried as well
Classify_RetryThird(f, a) ==
    IF MsgIncludes(f, "404") THEN "notfound"
    ELSE IF MsgIncludes(f, "403") THEN "permission"
    ELSE IF a <= MAX_ATTEMPTS /\ (MsgIncludes(f, "503") \/ MsgIncludes(f, "timeout"))
         THEN "retry"
         ELSE "rethrow"

\* what the catch block of the retry loop does with a failure of attempt a
\* "notfound" / "permission": a new Error is thrown; "retry": sleep, then
\* the next attempt; "rethrow": the error is thrown as it is
Classify(f, a) ==
    IF MsgIncludes(f, "404") THEN "notfound"
    ELSE IF MsgIncludes(f, "403") THEN "permission"
    ELSE IF a < MAX_ATTEMPTS /\ (MsgIncludes(f, "503") \/ MsgIncludes(f, "timeout"))
         THEN "retry"
         ELSE "rethrow"

\* a faulty variant: the same wait before every retry
BackoffDelay_Constant(a) == BACKOFF_BASE_MS

BackoffDelay(a) == a * BACKOFF_BASE_MS

(***************************************************************************)
(* Aggregation: the loop over allBuckets that fills modelMap.  modelMap is *)
(* a Map, kept here as the sequence of its entries in insertion order.     *)
(***************************************************************************)
EmptyAcc ==
    [modelMap |-> <<>>, totalInputTokens |-> 0, totalOutputTokens |-> 0,
     totalRequests |-> 0, bucketsWithResults |-> 0, bucketsWithoutResults |-> 0,
     totalResultsProcessed |-> 0]

MapHas(mm, model) == \E k \in DOMAIN mm : mm[k].model = model

\* a faulty variant: a later entry of a model replaces the earlier ones
MapAdd_Overwrite(mm, model, i, o, r) ==
    IF \E k \in DOMAIN mm : mm[k].model = model
    THEN [k \in DOMAIN mm |->
            IF mm[k].model = model
            THEN [model |-> model, inputTokens |-> i, outputTokens |-> o, requests |-> r]
            ELSE mm[k]]
    ELSE Append(mm, [model |-> model, inputTokens |-> i, outputTokens |-> o, requests |-> r])

\* existing ? existing.x += x : modelMap.set(model, {...})
MapAdd(mm, model, i, o, r) ==
    IF MapHas(mm, model)
    THEN [k \in DOMAIN mm |->
            IF mm[k].model = model
            THEN [model |-> model,
                  inputTokens |-> mm[k].inputTokens + i,
                  outputTokens |-> mm[k].outputTokens + o,
                  requests |-> mm[k].requests + r]
            ELSE mm[k]]
    ELSE Append(mm, [model |-> model, inputTokens |-> i, outputTokens |-> o, requests |-> r])

\* the update both branches make for one result object
AddResult(acc, e) ==
    LET model == OrStr(e.model, "unknown")
        inputTokens == OrNum(e.input_tokens, 0)
        outputTokens == OrNum(e.output_tokens, 0)
        requests == OrNum(e.num_model_requests, 0)
    IN  [acc EXCEPT !.totalInputTokens = @ + inputTokens,
                    !.totalOutputTokens = @ + outputTokens,
                    !.totalRequests = @ + requests,
                    !.totalResultsProcessed = @ + 1,
                    !.modelMap = MapAdd(@, model, inputTokens, outputTokens, requests)]

RECURSIVE AddResults(_, _)
AddResults(acc, results) ==
    IF results = <<>> THEN acc
    ELSE AddResults(AddResult(acc, Head(results)), Tail(results))

AddBucket(acc, bucket) ==
    IF bucket.results # Undefined
    THEN AddResults([acc EXCEPT !.bucketsWithResults = @ + 1], bucket.results[1])
    ELSE IF bucket.input_tokens # Undefined \/ bucket.output_tokens # Undefined
         THEN AddResult([acc EXCEPT !.bucketsWithResults = @ + 1], bucket)
         ELSE [acc EXCEPT !.bucketsWithoutResults = @ + 1]

\* the loop over buckets[lo..hi], in order (halved to keep the evaluation shallow)
RECURSIVE ParseRange(_, _, _, _)
ParseRange(acc, buckets, lo, hi) ==
    IF lo > hi THEN acc
    ELSE IF lo = hi THEN AddBucket(acc, buckets[lo])
    ELSE LET mid == (lo + hi) \div 2
             left == ParseRange(acc, buckets, lo, mid)
         IN  \* the first half is evaluated before the second starts
             IF left.bucketsWithResults + left.bucketsWithoutResults >= mid - lo
             THEN ParseRange(left, buckets, mid + 1, hi)
             ELSE left

ParseBuckets(acc, buckets) == ParseRange(acc, buckets, 1, Len(buckets))

(***************************************************************************)
(* Strings.  Identifiers are TLA+ strings; startsWith and split/join work  *)
(* on their characters.                                                    *)
(***************************************************************************)
\* the characters of every identifier of the model (a string is its characters)
Chars ==
       "gpt-4o" :> <<"g", "p", "t", "-", "4", "o">>
    @@ "gpt-4o-2024-11-20" :> <<"g", "p", "t", "-", "4", "o", "-", "2", "0", "2", "4", "-", "1", "1", "-", "2", "0">>
    @@ "gpt-4o-2024-08-06" :> <<"g", "p", "t", "-", "4", "o", "-", "2", "0", "2", "4", "-", "0", "8", "-", "0", "6">>
    @@ "gpt-4o-2024-05-13" :> <<"g", "p", "t", "-", "4", "o", "-", "2", "0", "2", "4", "-", "0", "5", "-", "1", "3">>
    @@ "gpt-4o-mini" :> <<"g", "p", "t", "-", "4", "o", "-", "m", "i", "n", "i">>
    @@ "gpt-4o-mini-2024-07-18" :> <<"g", "p", "t", "-", "4", "o", "-", "m", "i", "n", "i", "-", "2", "0", "2", "4", "-", "0", "7", "-", "1", "8">>
    @@ "gpt-4-turbo" :> <<"g", "p", "t", "-", "4", "-", "t", "u", "r", "b", "o">>
    @@ "gpt-4-turbo-preview" :> <<"g", "p", "t", "-", "4", "-", "t", "u", "r", "b", "o", "-", "p", "r", "e", "v", "i", "e", "w">>
    @@ "gpt-4-1106-preview" :> <<"g", "p", "t", "-", "4", "-", "1", "1", "0", "6", "-", "p", "r", "e", "v", "i", "e", "w">>
    @@ "gpt-4" :> <<"g", "p", "t", "-", "4">>
    @@ "gpt-4-0613" :> <<"g", "p", "t", "-", "4", "-", "0", "6", "1", "3">>
    @@ "gpt-3.5-turbo" :> <<"g", "p", "t", "-", "3", ".", "5", "-", "t", "u", "r", "b", "o">>
    @@ "gpt-3.5-turbo-0125" :> <<"g", "p", "t", "-", "3", ".", "5", "-", "t", "u", "r", "b", "o", "-", "0", "1", "2", "5">>
    @@ "gpt-3.5-turbo-1106" :> <<"g", "p", "t", "-", "3", ".", "5", "-", "t", "u", "r", "b", "o", "-", "1", "1", "0", "6">>
    @@ "text-embedding-3-small" :> <<"t", "e", "x", "t", "-", "e", "m", "b", "e", "d", "d", "i", "n", "g", "-", "3", "-", "s", "m", "a", "l", "l">>
    @@ "text-embedding-3-large" :> <<"t", "e", "x", "t", "-", "e", "m", "b", "e", "d", "d", "i", "n", "g", "-", "3", "-", "l", "a", "r", "g", "e">>
    @@ "text-embedding-ada-002" :> <<"t", "e", "x", "t", "-", "e", "m", "b", "e", "d", "d", "i", "n", "g", "-", "a", "d", "a", "-", "0", "0", "2">>
    @@ "default" :> <<"d", "e", "f", "a", "u", "l", "t">>
    @@ "claude-3-5-sonnet-20241022" :> <<"c", "l", "a", "u", "d", "e", "-", "3", "-", "5", "-", "s", "o", "n", "n", "e", "t", "-", "2", "0", "2", "4", "1", "0", "2", "2">>
    @@ "claude-3-5-sonnet-20240620" :> <<"c", "l", "a", "u", "d", "e", "-", "3", "-", "5", "-", "s", "o", "n", "n", "e", "t", "-", "2", "0", "2", "4", "0", "6", "2", "0">>
    @@ "claude-3-5-sonnet" :> <<"c", "l", "a", "u", "d", "e", "-", "3", "-", "5", "-", "s", "o", "n", "n", "e", "t">>
    @@ "claude-3-5-haiku-20241022" :> <<"c", "l", "a", "u", "d", "e", "-", "3", "-", "5", "-", "h", "a", "i", "k", "u", "-", "2", "0", "2", "4", "1", "0", "2", "2">>
    @@ "claude-3-5-haiku" :> <<"c", "l", "a", "u", "d", "e", "-", "3", "-", "5", "-", "h", "a", "i", "k", "u">>
    @@ "claude-3-opus-20240229" :> <<"c", "l", "a", "u", "d", "e", "-", "3", "-", "o", "p", "u", "s", "-", "2", "0", "2", "4", "0", "2", "2", "9">>
    @@ "claude-3-opus" :> <<"c", "l", "a", "u", "d", "e", "-", "3", "-", "o", "p", "u", "s">>
    @@ "claude-3-sonnet-20240229" :> <<"c", "l", "a", "u", "d", "e", "-", "3", "-", "s", "o", "n", "n", "e", "t", "-", "2", "0", "2", "4", "0", "2", "2", "9">>
    @@ "claude-3-sonnet" :> <<"c", "l", "a", "u", "d", "e", "-", "3", "-", "s", "o", "n", "n", "e", "t">>
    @@ "claude-3-haiku-20240307" :> <<"c", "l", "a", "u", "d", "e", "-", "3", "-", "h", "a", "i", "k", "u", "-", "2", "0", "2", "4", "0", "3", "0", "7">>
    @@ "claude-3-haiku" :> <<"c", "l", "a", "u", "d", "e", "-", "3", "-", "h", "a", "i", "k", "u">>
    @@ "claude-2.1" :> <<"c", "l", "a", "u", "d", "e", "-", "2", ".", "1">>
    @@ "claude-2.0" :> <<"c", "l", "a", "u", "d", "e", "-", "2", ".", "0">>
    @@ "claude-instant-1.2" :> <<"c", "l", "a", "u", "d", "e", "-", "i", "n", "s", "t", "a", "n", "t", "-", "1", ".", "2">>
    @@ "unknown" :> <<"u", "n", "k", "n", "o", "w", "n">>
    @@ "gpt-5" :> <<"g", "p", "t", "-", "5">>
    @@ "gpt-3.5-turbo-16k" :> <<"g", "p", "t", "-", "3", ".", "5", "-", "t", "u", "r", "b", "o", "-", "1", "6", "k">>
    @@ "gpt-4o-mini-2024-09-01" :> <<"g", "p", "t", "-", "4", "o", "-", "m", "i", "n", "i", "-", "2", "0", "2", "4", "-", "0", "9", "-", "0", "1">>
    @@ "gpt-4-turbo-2024-04-09" :> <<"g", "p", "t", "-", "4", "-", "t", "u", "r", "b", "o", "-", "2", "0", "2", "4", "-", "0", "4", "-", "0", "9">>
    @@ "gpt-4o-2024-12-01" :> <<"g", "p", "t", "-", "4", "o", "-", "2", "0", "2", "4", "-", "1", "2", "-", "0", "1">>
    @@ "gpt" :> <<"g", "p", "t">>
    @@ "gpt-4.1" :> <<"g", "p", "t", "-", "4", ".", "1">>
    @@ "o1-mini" :> <<"o", "1", "-", "m", "i", "n", "i">>
    @@ "text-embedding-3" :> <<"t", "e", "x", "t", "-", "e", "m", "b", "e", "d", "d", "i", "n", "g", "-", "3">>
    @@ "constructor" :> <<"c", "o", "n", "s", "t", "r", "u", "c", "t", "o", "r">>
    @@ "toString" :> <<"t", "o", "S", "t", "r", "i", "n", "g">>
    @@ "__proto__" :> <<"_", "_", "p", "r", "o", "t", "o", "_", "_">>
    @@ "d" :> <<"d">>
    @@ "claude-3-5-sonnet-20250101" :> <<"c", "l", "a", "u", "d", "e", "-", "3", "-", "5", "-", "s", "o", "n", "n", "e", "t", "-", "2", "0", "2", "5", "0", "1", "0", "1">>
    @@ "claude-3-opus-latest" :> <<"c", "l", "a", "u", "d", "e", "-", "3", "-", "o", "p", "u", "s", "-", "l", "a", "t", "e", "s", "t">>
    @@ "claude-3-7-sonnet" :> <<"c", "l", "a", "u", "d", "e", "-", "3", "-", "7", "-", "s", "o", "n", "n", "e", "t">>
    @@ "claude-4" :> <<"c", "l", "a", "u", "d", "e", "-", "4">>
    @@ "claude-3-haiku-x" :> <<"c", "l", "a", "u", "d", "e", "-", "3", "-", "h", "a", "i", "k", "u", "-", "x">>
    @@ "" :> <<>>

MODEL_PRICING ==
    << [key |-> "gpt-4o", input |-> 250, output |-> 1000],
       [key |-> "gpt-4o-2024-11-20", input |-> 250, output |-> 1000],
       [key |-> "gpt-4o-2024-08-06", input |-> 250, output |-> 1000],
       [key |-> "gpt-4o-2024-05-13", input |-> 500, output |-> 1500],
       [key |-> "gpt-4o-mini", input |-> 15, output |-> 60],
       [key |-> "gpt-4o-mini-2024-07-18", input |-> 15, output |-> 60],
       [key |-> "gpt-4-turbo", input |-> 1000, output |-> 3000],
       [key |-> "gpt-4-turbo-preview", input |-> 1000, output |-> 3000],
       [key |-> "gpt-4-1106-preview", input |-> 1000, output |-> 3000],
       [key |-> "gpt-4", input |-> 3000, output |-> 6000],
       [key |-> "gpt-4-0613", input |-> 3000, output |-> 6000],
       [key |-> "gpt-3.5-turbo", input |-> 50, output |-> 150],
       [key |-> "gpt-3.5-turbo-0125", input |-> 50, output |-> 150],
       [key |-> "gpt-3.5-turbo-1106", input |-> 100, output |-> 200],
       [key |-> "text-embedding-3-small", input |-> 2, output |-> 0],
       [key |-> "text-embedding-3-large", input |-> 13, output |-> 0],
       [key |-> "text-embedding-ada-002", input |-> 10, output |-> 0],
       [key |-> "default", input |-> 250, output |-> 1000] >>

ANTHROPIC_MODEL_PRICING ==
    << [key |-> "claude-3-5-sonnet-20241022", input |-> 300, output |-> 1500],
       [key |-> "claude-3-5-sonnet-20240620", input |-> 300, output |-> 1500],
       [key |-> "claude-3-5-sonnet", input |-> 300, output |-> 1500],
       [key |-> "claude-3-5-haiku-20241022", input |-> 80, output |-> 400],
       [key |-> "claude-3-5-haiku", input |-> 80, output |-> 400],
       [key |-> "claude-3-opus-20240229", input |-> 1500, output |-> 7500],
       [key |-> "claude-3-opus", input |-> 1500, output |-> 7500],
       [key |-> "claude-3-sonnet-20240229", input |-> 300, output |-> 1500],
       [key |-> "claude-3-sonnet", input |-> 300, output |-> 1500],
       [key |-> "claude-3-haiku-20240307", input |-> 25, output |-> 125],
       [key |-> "claude-3-haiku", input |-> 25, output |-> 125],
       [key |-> "claude-2.1", input |-> 800, output |-> 2400],
       [key |-> "claude-2.0", input |-> 800, output |-> 2400],
       [key |-> "claude-instant-1.2", input |-> 80, output |-> 240],
       [key |-> "default", input |-> 300, output |-> 1500] >>
IsPrefixSeq(p, s) == Len(p) <= Len(s) /\ SubSeq(s, 1, Len(p)) = p

\* a.startsWith(b), b given by its characters
StartsWithChars(a, bc) == IsPrefixSeq(bc, Chars[a])

\* a.startsWith(b)
StartsWith(a, b) == StartsWithChars(a, Chars[b])

\* model.split('-').slice(0, n).join('-'): the characters before the n-th '-'
SplitSliceJoin(model, n) ==
    LET s == Chars[model]
        dashes == {i \in 1..Len(s) : s[i] = "-"}
        nth == {i \in dashes : Cardinality({j \in dashes : j <= i}) = n}
    IN  IF nth = {} THEN s ELSE SubSeq(s, 1, (CHOOSE i \in nth : TRUE) - 1)

(***************************************************************************)
(* Pricing lookup.  MODEL_PRICING is an object literal: table[model] finds *)
(* the own key, or else a property inherited from Object.prototype.        *)
(***************************************************************************)
ObjectPrototypeKeys == {"constructor", "toString", "__proto__"}

\* the NaN that arithmetic on an undefined price gives: a value no cost has
NaN == -2147483647

\* a + b of two numbers
Plus(a, b) == IF a = NaN \/ b = NaN THEN NaN ELSE a + b

\* tokens * price
Times(a, b) == IF a = NaN \/ b = NaN THEN NaN ELSE a * b

OwnKeys(table) == {table[k].key : k \in DOMAIN table}

Entry(table, key) == table[CHOOSE k \in DOMAIN table : table[k].key = key]

PriceOf(table, key, how) ==
    [how |-> how, key |-> key,
     input |-> Entry(table, key).input, output |-> Entry(table, key).output]

\* an inherited property is truthy and has no input / output fields
InheritedValue(model) == [how |-> "inherited", key |-> model, input |-> NaN, output |-> NaN]

\* Object.keys(table).find(pred): the first key, in declaration order
FirstKey(table, Pred(_)) ==
    LET hits == {k \in DOMAIN table : Pred(table[k].key)}
    IN  IF hits = {} THEN Undefined
        ELSE Some(table[CHOOSE k \in hits : \A j \in hits : k <= j].key)

\* the lookup of getCosts; n is the number of '-'-separated parts of the
\* model that make the heuristic prefix (2 for OpenAI, 3 for Anthropic)
ResolvePricing(table, model, n) ==
    IF model \in OwnKeys(table) THEN PriceOf(table, model, "exact")
    ELSE IF model \in ObjectPrototypeKeys THEN InheritedValue(model)
    ELSE LET PrefixMatch(key) ==
                 StartsWith(model, key) \/ StartsWithChars(key, SplitSliceJoin(model, n))
             modelPrefix == FirstKey(table, PrefixMatch)
         IN  IF modelPrefix # Undefined
             THEN PriceOf(table, modelPrefix[1], "prefix")
             ELSE PriceOf(table, "default", "default")

OpenAIPricing(model) == ResolvePricing(MODEL_PRICING, model, 2)

\* a faulty variant: output tokens charged at the input price
ModelCost_InputPriceOnly(inputTokens, outputTokens, pricing) ==
    Plus(Times(inputTokens, pricing.input), Times(outputTokens, pricing.input))

\* (inputTokens / 1_000_000) * pricing.input + (outputTokens / 1_000_000) *
\* pricing.output, in units of 10^-8 USD; undefined prices give NaN
ModelCost(inputTokens, outputTokens, pricing) ==
    Plus(Times(inputTokens, pricing.input), Times(outputTokens, pricing.output))

\* one breakdown row of OpenAIProvider.getCosts
ModelCostRow(m) ==
    [model |-> IF m.model = "unknown" THEN "Unknown Model" ELSE m.model,
     cost_usd |-> ModelCost(m.inputTokens, m.outputTokens, OpenAIPricing(m.model)),
     requests |-> m.requests]

(***************************************************************************)
(* The result of OpenAIProvider.getCosts                                   *)
(***************************************************************************)
RECURSIVE SumCost(_)
SumCost(rows) == IF rows = <<>> THEN 0 ELSE Plus(Head(rows).cost_usd, SumCost(Tail(rows)))

\* breakdown.sort((a, b) => b.cost_usd - a.cost_usd): Array.prototype.sort is
\* stable, so rows of equal cost keep their order (a NaN difference counts
\* as equal; NaN rows only ever occur alone here)
InsertByCost(sorted, row) ==
    LET before == {k \in 1..Len(sorted) :
                      \/ sorted[k].cost_usd = NaN
                      \/ row.cost_usd = NaN
                      \/ sorted[k].cost_usd >= row.cost_usd}
        n == Cardinality(before)
    IN  SubSeq(sorted, 1, n) \o <<row>> \o SubSeq(sorted, n + 1, Len(sorted))

RECURSIVE SortFrom(_, _)
SortFrom(sorted, rows) ==
    IF rows = <<>> THEN sorted
    ELSE SortFrom(InsertByCost(sorted, Head(rows)), Tail(rows))

SortByCostDesc(rows) == SortFrom(<<>>, rows)

\* the rows pushed for the entries of modelMap, in the Map's order
BreakdownOf(modelMap) == [k \in DOMAIN modelMap |-> ModelCostRow(modelMap[k])]

\* from the filled accumulators to the returned CostData (last_updated, the
\* time of the call, is left out)
CostDataOf(acc) ==
    LET rows == BreakdownOf(acc.modelMap)
        summary == Len(rows) = 0
                     /\ (acc.totalInputTokens > 0 \/ acc.totalOutputTokens > 0)
        defaultPricing == PriceOf(MODEL_PRICING, "default", "default")
        summaryCost == ModelCost(acc.totalInputTokens, acc.totalOutputTokens, defaultPricing)
    IN  IF summary
        THEN [total_cost_usd |-> summaryCost,
              breakdown |-> << [model |-> "All Models (aggregated)",
                                cost_usd |-> summaryCost,
                                requests |-> acc.totalRequests] >>]
        ELSE [total_cost_usd |-> SumCost(rows),
              breakdown |-> SortByCostDesc(rows)]

(***************************************************************************)
(* AnthropicProvider.getCosts: from the usage data of the endpoint that    *)
(* answered to the CostData.  Costs are in units of 10^-8 USD.             *)
(***************************************************************************)
\* a JSON value that is an array of items, or some other truthy value
ArrayOf(items) == [array |-> TRUE, items |-> items]
NotAnArray == [array |-> FALSE, items |-> <<>>]

\* an object of the usage response with none of the fields the code reads
NoUsageFields ==
    [isNull |-> FALSE, data |-> Undefined, usage |-> Undefined, results |-> Undefined,
     model |-> Undefined, input_tokens |-> Undefined, prompt_tokens |-> Undefined,
     output_tokens |-> Undefined, completion_tokens |-> Undefined,
     request_count |-> Undefined, num_requests |-> Undefined, requests |-> Undefined]

JsonNull == [NoUsageFields EXCEPT !.isNull = TRUE]

\* total_cost_usd: -1 says "not available"
Unavailable == -1

\* a faulty variant: unavailability reported as a total of 0
UsageNotAvailable_Zero ==
    [total_cost_usd |-> 0,
     breakdown |-> << [model |-> "Usage API not available", cost_usd |-> 0, requests |-> 0] >>]

\* the CostData returned when no usage endpoint answered
UsageNotAvailable ==
    [total_cost_usd |-> Unavailable,
     breakdown |-> << [model |-> "Usage API not available", cost_usd |-> 0, requests |-> 0] >>]

\* usageData.data || usageData.usage || usageData.results || [usageData],
\* and no entries when that is not an array
UsageEntries(usageData) ==
    LET usageEntries ==
            IF usageData.data # Undefined THEN usageData.data[1]
            ELSE IF usageData.usage # Undefined THEN usageData.usage[1]
            ELSE IF usageData.results # Undefined THEN usageData.results[1]
            ELSE ArrayOf(<<usageData>>)
    IN  IF usageEntries.array THEN usageEntries.items ELSE <<>>

\* the body of the loop over usageEntries
AddUsageEntry(acc, entry) ==
    LET model == OrStr(entry.model, "unknown")
        inputTokens == OrNum(entry.input_tokens, OrNum(entry.prompt_tokens, 0))
        outputTokens == OrNum(entry.output_tokens, OrNum(entry.completion_tokens, 0))
        requests == OrNum(entry.request_count,
                          OrNum(entry.num_requests, OrNum(entry.requests, 1)))
    IN  [acc EXCEPT !.totalInputTokens = @ + inputTokens,
                    !.totalOutputTokens = @ + outputTokens,
                    !.totalRequests = @ + requests,
                    !.modelMap = MapAdd(@, model, inputTokens, outputTokens, requests)]

RECURSIVE AddUsageEntries(_, _)
AddUsageEntries(acc, entries) ==
    IF entries = <<>> THEN acc
    ELSE AddUsageEntries(AddUsageEntry(acc, Head(entries)), Tail(entries))

AnthropicPricing(model) == ResolvePricing(ANTHROPIC_MODEL_PRICING, model, 3)

\* one breakdown row of AnthropicProvider.getCosts
AnthropicCostRow(m) ==
    [model |-> IF m.model = "unknown" THEN "Unknown Model" ELSE m.model,
     cost_usd |-> ModelCost(m.inputTokens, m.outputTokens, AnthropicPricing(m.model)),
     requests |-> m.requests]

\* from the filled accumulators to the returned CostData
AnthropicCostDataOf(acc) ==
    LET rows == [k \in DOMAIN acc.modelMap |-> AnthropicCostRow(acc.modelMap[k])]
    IN  [total_cost_usd |-> SumCost(rows), breakdown |-> SortByCostDesc(rows)]

\* usage responses an endpoint may give
AnthropicUsageBodies ==
    { [NoUsageFields EXCEPT !.data = Some(ArrayOf(<<
           [NoUsageFields EXCEPT !.model = Some("claude-3-5-sonnet-20241022"),
                                 !.input_tokens = Some(1000), !.output_tokens = Some(500),
                                 !.request_count = Some(3)],
           [NoUsageFields EXCEPT !.model = Some("claude-3-opus-latest"),
                                 !.prompt_tokens = Some(2000),
                                 !.completion_tokens = Some(100),
                                 !.num_requests = Some(2)],
           [NoUsageFields EXCEPT !.model = Some("claude-3-5-sonnet-20241022"),
                                 !.input_tokens = Some(10)] >>))],
      [NoUsageFields EXCEPT !.usage = Some(ArrayOf(<<
           [NoUsageFields EXCEPT !.input_tokens = Some(500), !.output_tokens = Some(10),
                                 !.requests = Some(4)] >>))],
      [NoUsageFields EXCEPT !.results = Some(ArrayOf(<<>>))],
      [NoUsageFields EXCEPT !.model = Some("claude-3-haiku-x"),
                            !.input_tokens = Some(0), !.prompt_tokens = Some(700),
                            !.output_tokens = Some(70)],
      [NoUsageFields EXCEPT !.data = Some(NotAnArray)],
      JsonNull }

(***************************************************************************)
(* ElevenLabsProvider.getCosts: from the user, subscription and            *)
(* character-stats responses to the CostData.  Prices are in cents per     *)
(* 1000 characters, costs in units of 10^-5 USD.                           *)
(***************************************************************************)
PRICING_PER_1000_CHARS ==
    << [key |-> "free", price |-> 0],
       [key |-> "starter", price |-> 30],
       [key |-> "creator", price |-> 24],
       [key |-> "pro", price |-> 18],
       [key |-> "scale", price |-> 11],
       [key |-> "business", price |-> 8],
       [key |-> "enterprise", price |-> 5],
       [key |-> "growing_business", price |-> 11],
       [key |-> "default", price |-> 20] >>

\* tier.toLowerCase(), for the tiers that are not lower case already
UpperCaseTiers == "Creator" :> "creator" @@ "PRO" :> "pro" @@ "Free" :> "free"

ToLowerCase(str) == IF str \in DOMAIN UpperCaseTiers THEN UpperCaseTiers[str] ELSE str

\* PRICING_PER_1000_CHARS[key] || PRICING_PER_1000_CHARS['default']
PricePer1000Chars(key) ==
    LET own == {k \in DOMAIN PRICING_PER_1000_CHARS : PRICING_PER_1000_CHARS[k].key = key}
        price == PRICING_PER_1000_CHARS[CHOOSE k \in own : TRUE].price
    IN  IF own # {} /\ price # 0 THEN price
        ELSE IF own = {} /\ key \in ObjectPrototypeKeys THEN NaN
        ELSE PRICING_PER_1000_CHARS[Len(PRICING_PER_1000_CHARS)].price

NoSubscriptionFields ==
    [character_count |-> Undefined, character_limit |-> Undefined, tier |-> Undefined]

\* userData.subscription?.field
SubscriptionOfUser(userData) ==
    IF userData.subscription = Undefined THEN NoSubscriptionFields
    ELSE userData.subscription[1]

CharacterCount(userData, subscriptionData) ==
    OrNum(subscriptionData.character_count,
          OrNum(SubscriptionOfUser(userData).character_count, 0))

CharacterLimit(userData, subscriptionData) ==
    OrNum(subscriptionData.character_limit,
          OrNum(SubscriptionOfUser(userData).character_limit, 0))

Tier(userData, subscriptionData) ==
    OrStr(subscriptionData.tier, OrStr(SubscriptionOfUser(userData).tier, "unknown"))

\* pricePerChar, times 1000
PricePerChar(userData, subscriptionData) ==
    PricePer1000Chars(ToLowerCase(Tier(userData, subscriptionData)))

\* the CostData of the monthly totals
MonthlyCostData(userData, subscriptionData) ==
    LET characterCount == CharacterCount(userData, subscriptionData)
        estimatedCost == Times(characterCount, PricePerChar(userData, subscriptionData))
        used == << [model |-> "Characters Used", cost_usd |-> estimatedCost,
                    requests |-> characterCount] >>
        quota == IF CharacterLimit(userData, subscriptionData) > 0
                 THEN << [model |-> "Quota", cost_usd |-> 0, requests |-> 0] >>
                 ELSE <<>>
    IN  [total_cost_usd |-> estimatedCost, breakdown |-> used \o quota]

\* usageData.reduce((sum, item) => sum + (item.character_count || 0), 0)
RECURSIVE PeriodCharacters(_)
PeriodCharacters(items) ==
    IF items = <<>> THEN 0
    ELSE PeriodCharacters(SubSeq(items, 1, Len(items) - 1))
             + OrNum(items[Len(items)].character_count, 0)

\* whether the character-stats response replaces the monthly totals
HasPeriodStats(usageData) ==
    ~ usageData.isNull /\ usageData.stats.array /\ Len(usageData.stats.items) > 0

\* the CostData of the period
PeriodCostData(userData, subscriptionData, usageData) ==
    LET periodCharacters == PeriodCharacters(usageData.stats.items)
        periodCost == Times(periodCharacters, PricePerChar(userData, subscriptionData))
    IN  [total_cost_usd |-> periodCost,
         breakdown |-> << [model |-> "Characters", cost_usd |-> periodCost,
                           requests |-> periodCharacters],
                          [model |-> "Monthly Quota", cost_usd |-> 0, requests |-> 0] >>]

\* responses of /user, /user/subscription and /usage/character-stats
ElevenLabsUsers ==
    { [subscription |-> Undefined],
      [subscription |-> Some([character_count |-> Some(1200), character_limit |-> Some(10000),
                              tier |-> Some("Creator")])] }

ElevenLabsSubscriptions ==
    { NoSubscriptionFields,
      [character_count |-> Some(5000), character_limit |-> Some(100000), tier |-> Some("pro")],
      [character_count |-> Some(300), character_limit |-> Some(0), tier |-> Some("free")],
      [character_count |-> Some(0), character_limit |-> Undefined, tier |-> Some("team")] }

ElevenLabsStats ==
    { [isNull |-> TRUE, stats |-> NotAnArray],
      [isNull |-> FALSE, stats |-> NotAnArray],
      [isNull |-> FALSE, stats |-> ArrayOf(<<>>)],
      [isNull |-> FALSE, stats |-> ArrayOf(<< [character_count |-> Some(400)],
                                              [character_count |-> Undefined],
                                              [character_count |-> Some(250)] >>)] }

(***************************************************************************)
(* DeepgramProvider.getCosts: from the usage and balances responses to     *)
(* the CostData.  Hours are whole hours, costs in units of 10^-3 USD.      *)
(***************************************************************************)
\* MODEL_PRICING_PER_HOUR['default']: 0.0043 * 60 USD
DEFAULT_PRICE_PER_HOUR == 258

NoDeepgramFields ==
    [results |-> Undefined, hours |-> Undefined, duration |-> Undefined,
     total_hours |-> Undefined, requests |-> Undefined, count |-> Undefined]

\* the sums of the loop over usageData.results
RECURSIVE SumDailyResults(_)
SumDailyResults(items) ==
    IF items = <<>> THEN [totalHours |-> 0, totalRequests |-> 0]
    ELSE LET rest == SumDailyResults(SubSeq(items, 1, Len(items) - 1))
             result == items[Len(items)]
         IN  [totalHours |-> rest.totalHours
                               + OrNum(result.hours, OrNum(result.total_hours, 0)),
              totalRequests |-> rest.totalRequests + OrNum(result.requests, 0)]

\* totalCost, totalHours and the usage rows of the breakdown
DeepgramUsage(usageData) ==
    IF usageData.results # Undefined /\ usageData.results[1].array
    THEN LET sums == SumDailyResults(usageData.results[1].items)
             totalCost == sums.totalHours * DEFAULT_PRICE_PER_HOUR
         IN  [totalCost |-> totalCost, totalHours |-> sums.totalHours,
              rows |-> IF sums.totalHours > 0 \/ sums.totalRequests > 0
                       THEN << [model |-> "Speech-to-Text", cost_usd |-> totalCost,
                                requests |-> sums.totalRequests] >>
                       ELSE <<>>]
    ELSE IF usageData.hours # Undefined \/ usageData.duration # Undefined
    THEN LET hours == OrNum(usageData.hours, OrNum(usageData.duration, 0))
             requests == OrNum(usageData.requests, OrNum(usageData.count, 0))
             cost == hours * DEFAULT_PRICE_PER_HOUR
         IN  [totalCost |-> cost, totalHours |-> hours,
              rows |-> << [model |-> "Speech-to-Text", cost_usd |-> cost,
                           requests |-> requests] >>]
    ELSE [totalCost |-> 0, totalHours |-> 0, rows |-> <<>>]

\* the rows of the balances that have an amount
BalanceRows(balanceData) ==
    IF balanceData.isNull \/ balanceData.balances = Undefined
          \/ ~ balanceData.balances[1].array
    THEN <<>>
    ELSE LET items == balanceData.balances[1].items
             RECURSIVE Rows(_)
             Rows(k) ==
                 IF k = 0 THEN <<>>
                 ELSE Rows(k - 1)
                          \o (IF items[k].amount # Undefined
                              THEN << [model |-> "Credit Balance", cost_usd |-> 0,
                                       requests |-> 0] >>
                              ELSE <<>>)
         IN  Rows(Len(items))

DeepgramCostData(usageData, balanceData) ==
    LET usage == DeepgramUsage(usageData)
        rows == usage.rows \o BalanceRows(balanceData)
        noUsage == IF Len(rows) = 0 /\ usage.totalHours = 0
                   THEN << [model |-> "No usage in this period", cost_usd |-> 0,
                            requests |-> 0] >>
                   ELSE <<>>
        noData == IF Len(rows \o noUsage) = 0
                  THEN << [model |-> "No usage data found for this period",
                           cost_usd |-> 0, requests |-> 0] >>
                  ELSE <<>>
    IN  [total_cost_usd |-> usage.totalCost, breakdown |-> rows \o noUsage \o noData]

\* responses of /projects/{id}/usage and /projects/{id}/balances
DeepgramUsages ==
    { [NoDeepgramFields EXCEPT !.results = Some(ArrayOf(<<
           [NoDeepgramFields EXCEPT !.hours = Some(2), !.requests = Some(40)],
           [NoDeepgramFields EXCEPT !.total_hours = Some(3)],
           [NoDeepgramFields EXCEPT !.requests = Some(5)] >>))],
      [NoDeepgramFields EXCEPT !.results = Some(ArrayOf(<<
           [NoDeepgramFields EXCEPT !.requests = Some(7)] >>))],
      [NoDeepgramFields EXCEPT !.results = Some(ArrayOf(<<>>))],
      [NoDeepgramFields EXCEPT !.results = Some(NotAnArray), !.hours = Some(4),
                               !.count = Some(9)],
      [NoDeepgramFields EXCEPT !.duration = Some(6), !.requests = Some(1)],
      [NoDeepgramFields EXCEPT !.hours = Some(0)],
      NoDeepgramFields }

DeepgramBalances ==
    { [isNull |-> TRUE, balances |-> Undefined],
      [isNull |-> FALSE, balances |-> Undefined],
      [isNull |-> FALSE, balances |-> Some(NotAnArray)],
      [isNull |-> FALSE, balances |-> Some(ArrayOf(<< [amount |-> Some(1250)],
                                                      [amount |-> Undefined] >>))] }

(***************************************************************************)
(* OpenRouterProvider.getCosts: from the key and credits responses to the  *)
(* CostData.  Amounts are in cents.                                        *)
(***************************************************************************)
\* a JSON value that is undefined, null or a number
JsonUndefined == [kind |-> "undefined", value |-> 0]
JsonNullValue == [kind |-> "null", value |-> 0]
JsonNumber(n) == [kind |-> "number", value |-> n]

NoKeyFields ==
    [data |-> Undefined, usage |-> Undefined, usage_daily |-> Undefined,
     usage_weekly |-> Undefined, usage_monthly |-> Undefined,
     limit |-> JsonUndefined, limit_remaining |-> JsonUndefined]

NoCreditsFields == [data |-> Undefined, total_credits |-> Undefined, total_usage |-> Undefined]

\* keyData.data || keyData
Unwrapped(body) == IF body.data # Undefined THEN body.data[1] ELSE body

\* Math.ceil((endDateObj.getTime() - startDateObj.getTime()) / (1000 * 60 * 60 * 24));
\* the two times of day differ by less than a day
DaysDiff(startDate, endDate) ==
    LET ms == endDate.ms - startDate.ms
    IN  (endDate.day - startDate.day)
            + (IF ms > 0 THEN 1 ELSE 0)

\* limit !== null && limitRemaining !== null, and then limit.toFixed(2)
LimitRowThrows(keyInfo) ==
    /\ keyInfo.limit.kind # "null" /\ keyInfo.limit_remaining.kind # "null"
    /\ (keyInfo.limit.kind = "undefined" \/ keyInfo.limit_remaining.kind = "undefined")

OpenRouterCostData(keyData, creditsData, startDate, endDate) ==
    LET keyInfo == Unwrapped(keyData)
        usageDaily == OrNum(keyInfo.usage_daily, 0)
        usageWeekly == OrNum(keyInfo.usage_weekly, 0)
        usageMonthly == OrNum(keyInfo.usage_monthly, 0)
        credits == Unwrapped(creditsData)
        totalCredits == OrNum(credits.total_credits, 0)
        totalUsage == OrNum(credits.total_usage, 0)
        daysDiff == DaysDiff(startDate, endDate)
        periodLabel == IF daysDiff <= 1 THEN "Today"
                       ELSE IF daysDiff <= 7 THEN "Last 7 Days"
                       ELSE IF daysDiff <= 31 THEN "Last 30 Days"
                       ELSE "Total"
        periodUsage == IF daysDiff <= 1 THEN usageDaily
                       ELSE IF daysDiff <= 7 THEN usageWeekly
                       ELSE IF daysDiff <= 31 THEN usageMonthly
                       ELSE totalUsage
        Row(model, cost) == << [model |-> model, cost_usd |-> cost, requests |-> 0] >>
        usageRows ==
            (IF periodUsage > 0 THEN Row("Usage", periodUsage) ELSE <<>>)
            \o (IF usageDaily > 0 /\ periodLabel # "Today"
                THEN Row("Today", usageDaily) ELSE <<>>)
            \o (IF usageWeekly > 0 /\ periodLabel # "Last 7 Days"
                     /\ usageWeekly # usageDaily
                THEN Row("Last 7 Days", usageWeekly) ELSE <<>>)
            \o (IF usageMonthly > 0 /\ periodLabel # "Last 30 Days"
                     /\ usageMonthly # usageWeekly
                THEN Row("Last 30 Days", usageMonthly) ELSE <<>>)
        infoRows ==
            Row("Credit Balance", 0)
            \o (IF keyInfo.limit.kind # "null" /\ keyInfo.limit_remaining.kind # "null"
                THEN Row("Key Limit Remaining", 0) ELSE <<>>)
        rows == usageRows \o infoRows
        noUsage == IF Len(rows) = 0 \/ (periodUsage = 0 /\ totalUsage = 0)
                   THEN Row("No usage recorded", 0) ELSE <<>>
    IN  [total_cost_usd |-> totalUsage, breakdown |-> noUsage \o rows]

\* responses of /auth/key and /credits
OpenRouterKeys ==
    { [NoKeyFields EXCEPT !.data = Some(
           [NoKeyFields EXCEPT !.usage = Some(2000), !.usage_daily = Some(100),
                               !.usage_weekly = Some(300), !.usage_monthly = Some(500),
                               !.limit = JsonNullValue,
                               !.limit_remaining = JsonNullValue])],
      [NoKeyFields EXCEPT !.usage = Some(700), !.usage_daily = Some(0),
                          !.usage_weekly = Some(700), !.usage_monthly = Some(700),
                          !.limit = JsonNumber(5000), !.limit_remaining = JsonNumber(4300)],
      [NoKeyFields EXCEPT !.data = Some(
           [NoKeyFields EXCEPT !.limit = JsonNullValue,
                               !.limit_remaining = JsonNullValue])],
      [NoKeyFields EXCEPT !.usage_daily = Some(100)] }

OpenRouterCredits ==
    { [NoCreditsFields EXCEPT !.data = Some(
           [NoCreditsFields EXCEPT !.total_credits = Some(5000), !.total_usage = Some(2000)])],
      [NoCreditsFields EXCEPT !.total_credits = Some(1000), !.total_usage = Some(700)],
      NoCreditsFields }

(***************************************************************************)
(* State                                                                   *)
(***************************************************************************)
VARIABLES
    provider,        \* the adapter the query goes to
    query,           \* CostParams: workspace, projectId, startDate, endDate
    keyOk,           \* whether the API key of the workspace is configured
    seed,            \* upstream: the data set it serves
    avail,           \* upstream: the number of pages of each window
    upstream,        \* upstream: the responses of the other providers
    pc,              \* where getCosts stands
    timeChunks,      \* getCosts: the windows
    i,               \* getCosts: index of the window being fetched
    allBuckets,      \* getCosts: buckets of the windows fetched so far
    allChunkBuckets, \* fetchAllPagesForChunk: buckets of this window
    nextPage,        \* fetchAllPagesForChunk: continuation token, or null
    pageCount,       \* fetchAllPagesForChunk: pages received
    attempt,         \* retry loop: number of the current attempt
    request,         \* query parameters of the request in flight
    caught,          \* the error in the catch block while it sleeps
    acc,             \* modelMap and the running totals
    result,          \* the CostData returned
    error,           \* the error thrown
    delays,          \* history: backoff delays slept for the current page
    chunkPages,      \* history: pages received for each finished window
    maxAttempt,      \* history: most attempts any received page needed
    cache,           \* utils/cache: the Map from cache key to {data, timestamp}
    now,             \* Date.now(), in ms
    route,           \* GET /api/costs: where each request stands
    returned         \* history: the last call of the cache module and its return

vars == <<provider, query, keyOk, seed, avail, upstream, pc, timeChunks, i, allBuckets,
          allChunkBuckets, nextPage, pageCount, attempt, request, caught, acc,
          result, error, delays, chunkPages, maxAttempt, cache, now, route, returned>>

\* the state of the route and of its cache, which getCosts does not touch
routeVars == <<cache, now, route, returned>>

\* what no step of getCosts changes: the query, the upstream and routeVars
upstreamVars == <<provider, query, keyOk, seed, avail, upstream, routeVars>>

\* OpenAI's responses are those of seed and avail
NoUpstream == [body |-> JsonNull]

NoFailure == [kind |-> "none", status |-> 0, body |-> "plain"]
NoError == [thrown |-> "none", cause |-> NoFailure, window |-> 0, attempt |-> 0, delays |-> <<>>]
NoRequest == [start_time |-> 0, end_time |-> 0, page |-> Undefined]
NoResult == [total_cost_usd |-> 0, breakdown |-> <<>>]

\* const cache = new Map(): the module is loaded, no request has come in
RouteRequests == {1}
NoResponse == [status |-> 0, body |-> NoResult]
NoCall == [op |-> "none", key |-> <<>>, ttl |-> 0, data |-> NoResult,
           value |-> Undefined, at |-> 0]
IdleRoute == [pc |-> "idle", query |-> <<>>, cacheKey |-> <<>>, response |-> NoResponse]
InitCache ==
    /\ cache = <<>>
    /\ now = 0
    /\ route = [r \in RouteRequests |-> IdleRoute]
    /\ returned = NoCall

\* the calendar days a query may span
RangeDays == {-1, 0, 1, 7, MAX_DAYS_PER_REQUEST}
                 \cup {MAX_DAYS_PER_REQUEST * k + 1 : k \in 1..(MaxWindows - 1)}
StartDays == {1}

NumWindows(q) == Len(TimeChunks(ToTimestamp(q.startDate), ToTimestamp(q.endDate)))

\* the data sets of PageData
Seeds == {0, 1}

\* the listings an upstream may hold for n windows: short ones, of which up to
\* two windows have several pages, and a first window of exactly, or one more
\* than, MAX_PAGES_PER_CHUNK pages
Listings(n) ==
    {l \in [1..n -> 1..MaxPages] : Cardinality({w \in 1..n : l[w] > 1}) <= 2}
        \cup {[w \in 1..n |-> IF w = 1 THEN long ELSE 1] :
                long \in IF n = 0 THEN {} ELSE {MAX_PAGES_PER_CHUNK, MAX_PAGES_PER_CHUNK + 1}}

Queries ==
    [workspace : {Undefined, Some("production")}, projectId : {Undefined, Some("proj_1")},
     startDate : {Midnight(s) : s \in StartDays},
     endDate : {Midnight(s + d) : s \in StartDays, d \in RangeDays}]

\* a faulty variant: the continuation token is left out of the request
QueryRequest_NoToken(chunk, page) ==
    [start_time |-> chunk.start, end_time |-> chunk.end, page |-> Undefined]

QueryRequest(chunk, page) ==
    [start_time |-> chunk.start, end_time |-> chunk.end, page |-> page]

InitOpenAI ==
    /\ provider = "openai"
    /\ upstream = NoUpstream
    /\ query \in Queries
    /\ keyOk \in BOOLEAN
    /\ seed \in Seeds
    /\ avail \in Listings(NumWindows(query))
    \* a query that cannot reach the upstream is tried on one data set only
    /\ (query.workspace = Undefined \/ ~keyOk) =>
           /\ seed = 0
           /\ query.projectId = Undefined
           /\ \A w \in DOMAIN avail : avail[w] = 1
    /\ query.projectId # Undefined => seed = 0 /\ \A w \in DOMAIN avail : avail[w] <= MaxPages

InitLocals ==
    /\ pc = "start"
    /\ timeChunks = <<>>
    /\ i = 0
    /\ allBuckets = <<>>
    /\ allChunkBuckets = <<>>
    /\ nextPage = Undefined
    /\ pageCount = 0
    /\ attempt = 0
    /\ request = NoRequest
    /\ caught = NoFailure
    /\ acc = EmptyAcc
    /\ result = NoResult
    /\ error = NoError
    /\ delays = <<>>
    /\ chunkPages = <<>>
    /\ maxAttempt = 0

\* the queries the adapters without time windows are asked
AdapterQueries == {q \in Queries : q.endDate.day = 2}

InitAnthropic ==
    /\ provider = "anthropic"
    /\ query \in AdapterQueries
    /\ keyOk \in BOOLEAN
    /\ seed = 0 /\ avail = <<>>
    /\ upstream \in [body : AnthropicUsageBodies]

InitElevenLabs ==
    /\ provider = "elevenlabs"
    /\ query \in {q \in AdapterQueries : q.workspace = Undefined /\ q.projectId = Undefined}
    /\ keyOk \in BOOLEAN
    /\ seed = 0 /\ avail = <<>>
    /\ upstream \in [user : ElevenLabsUsers, subscription : ElevenLabsSubscriptions,
                      stats : ElevenLabsStats]

InitDeepgram ==
    /\ provider = "deepgram"
    /\ query \in {q \in AdapterQueries : q.projectId = Undefined}
    /\ keyOk \in BOOLEAN
    /\ seed = 0 /\ avail = <<>>
    /\ upstream \in [usage : DeepgramUsages, balances : DeepgramBalances]

InitOpenRouter ==
    /\ provider = "openrouter"
    /\ query \in {q \in Queries : q.workspace = Undefined /\ q.projectId = Undefined}
    /\ keyOk \in BOOLEAN
    /\ seed = 0 /\ avail = <<>>
    /\ upstream \in [key : OpenRouterKeys, credits : OpenRouterCredits]

Init ==
    /\ InitOpenAI \/ InitAnthropic \/ InitElevenLabs \/ InitDeepgram \/ InitOpenRouter
    /\ InitLocals
    /\ InitCache

(***************************************************************************)
(* OpenAIProvider.getCosts                                                 *)
(***************************************************************************)
\* a throw leaves getCosts: its locals are gone.  The outer catch wraps the
\* error: throw new Error(`Failed to fetch costs: ${error.message}`).  The
\* error remembers, as history, the window, the attempt and the delays
Throw(thrown, cause) ==
    /\ pc' = "failed"
    /\ error' = [thrown |-> thrown, cause |-> cause, window |-> i,
                 attempt |-> attempt, delays |-> delays]
    /\ timeChunks' = <<>>
    /\ i' = 0
    /\ allBuckets' = <<>>
    /\ allChunkBuckets' = <<>>
    /\ nextPage' = Undefined
    /\ pageCount' = 0
    /\ attempt' = 0
    /\ request' = NoRequest
    /\ caught' = NoFailure
    /\ delays' = <<>>
    /\ chunkPages' = <<>>
    /\ maxAttempt' = 0
    /\ UNCHANGED <<acc, result>>

\* the first attempt for a page
SendFirst(req) ==
    /\ request' = req
    /\ attempt' = 1
    /\ delays' = <<>>
    /\ caught' = NoFailure
    /\ pc' = "request"
    /\ error' = error

\* after the loop over the windows: aggregate, price, sort, return
Return(buckets) ==
    /\ acc' = ParseBuckets(EmptyAcc, buckets)
    /\ result' = CostDataOf(acc')
    /\ pc' = "done"

\* getCosts up to its first await
GetCostsNoWorkspace ==
    /\ pc = "start" /\ provider = "openai"
    /\ query.workspace = Undefined
    /\ Throw("workspace", NoFailure)
    /\ UNCHANGED upstreamVars

GetCostsNoWindow ==
    /\ pc = "start" /\ provider = "openai"
    /\ query.workspace # Undefined
    /\ timeChunks' = TimeChunks(ToTimestamp(query.startDate), ToTimestamp(query.endDate))
    /\ timeChunks' = <<>>
    /\ Return(<<>>)
    /\ UNCHANGED <<upstreamVars, i, allBuckets, allChunkBuckets, nextPage, pageCount,
                   attempt, request, caught, error, delays, chunkPages, maxAttempt>>

\* fetchOpenAI throws before it sends when getApiKey finds no key: the catch
\* block of the retry loop gets 'API key not found for workspace: ...'
NoKeyFailure == [kind |-> "nokey", status |-> 0, body |-> "plain"]

GetCostsNoKey ==
    /\ pc = "start" /\ provider = "openai"
    /\ query.workspace # Undefined
    /\ TimeChunks(ToTimestamp(query.startDate), ToTimestamp(query.endDate)) # <<>>
    /\ ~ keyOk
    /\ Classify(NoKeyFailure, 1) # "retry"
    /\ Throw(Classify(NoKeyFailure, 1), NoKeyFailure)
    /\ UNCHANGED upstreamVars

GetCostsFirstRequest ==
    /\ pc = "start" /\ provider = "openai"
    /\ query.workspace # Undefined
    /\ keyOk
    /\ timeChunks' = TimeChunks(ToTimestamp(query.startDate), ToTimestamp(query.endDate))
    /\ timeChunks' # <<>>
    /\ i' = 1
    /\ SendFirst(QueryRequest(timeChunks'[1], Undefined))
    /\ UNCHANGED <<upstreamVars, allBuckets, allChunkBuckets, nextPage, pageCount,
                   acc, result, chunkPages, maxAttempt>>

\* the answer the upstream gives to the request in flight
Answer ==
    LET w == WindowOf(request, ToTimestamp(query.startDate))
        p == PageOf(request)
    IN  UpstreamBody(seed, avail[w], w, p)

\* a faulty variant: the buckets of a page are put in front of the list
Collected_NewestFirst(body) ==
    IF body.data # Undefined THEN body.data[1] \o allChunkBuckets ELSE allChunkBuckets

\* allChunkBuckets.push(...data.data) when the body has a data list
Collected(body) ==
    IF body.data # Undefined THEN allChunkBuckets \o body.data[1] ELSE allChunkBuckets

\* a faulty variant: has_more is ignored, a window is read one page only
NextPageOf_FirstPageOnly(body) == Undefined

\* nextPage = data.has_more ? data.next_page : null
NextPageOf(body) == IF body.has_more THEN body.next_page ELSE Undefined

\* a faulty variant: a window is read for as long as the upstream reports more
MorePages_NoCeiling(next, count) == next # Undefined

\* a faulty variant: the loop ends after the first page of a window
MorePages_FirstPageOnly(next, count) == next # Undefined /\ count < 1

\* while (nextPage && pageCount < MAX_PAGES_PER_CHUNK)
MorePages(next, count) == next # Undefined /\ count < MAX_PAGES_PER_CHUNK

\* a page arrives and the window has more: ask for the next page
PageReceivedMore ==
    /\ pc = "request" /\ provider = "openai"
    /\ MorePages(NextPageOf(Answer), pageCount + 1)
    /\ allChunkBuckets' = Collected(Answer)
    /\ nextPage' = NextPageOf(Answer)
    /\ pageCount' = pageCount + 1
    /\ maxAttempt' = IF attempt > maxAttempt THEN attempt ELSE maxAttempt
    /\ SendFirst(QueryRequest(timeChunks[i], nextPage'))
    /\ UNCHANGED <<upstreamVars, timeChunks, i, allBuckets, acc, result, chunkPages>>

\* the last page of a window arrives and another window follows
PageReceivedNextChunk ==
    /\ pc = "request" /\ provider = "openai"
    /\ ~ MorePages(NextPageOf(Answer), pageCount + 1)
    /\ i < Len(timeChunks)
    /\ allBuckets' = allBuckets \o Collected(Answer)
    /\ chunkPages' = Append(chunkPages, pageCount + 1)
    /\ maxAttempt' = IF attempt > maxAttempt THEN attempt ELSE maxAttempt
    /\ i' = i + 1
    /\ allChunkBuckets' = <<>>
    /\ nextPage' = Undefined
    /\ pageCount' = 0
    /\ SendFirst(QueryRequest(timeChunks[i'], Undefined))
    /\ UNCHANGED <<upstreamVars, timeChunks, acc, result>>

\* the last page of the last window arrives: getCosts returns
PageReceivedLast ==
    /\ pc = "request" /\ provider = "openai"
    /\ ~ MorePages(NextPageOf(Answer), pageCount + 1)
    /\ i = Len(timeChunks)
    /\ allBuckets' = allBuckets \o Collected(Answer)
    /\ allChunkBuckets' = Collected(Answer)
    /\ nextPage' = NextPageOf(Answer)
    /\ pageCount' = pageCount + 1
    /\ chunkPages' = Append(chunkPages, pageCount + 1)
    /\ maxAttempt' = IF attempt > maxAttempt THEN attempt ELSE maxAttempt
    /\ Return(allBuckets')
    /\ UNCHANGED <<upstreamVars, timeChunks, i, attempt, request, caught, error, delays>>

\* the failures a request that was sent can meet
RequestFailures == {f \in Failures : f.kind # "nokey"}

\* a request fails and the catch block sleeps before the next attempt
PageFailedRetry(f) ==
    /\ pc = "request" /\ provider = "openai"
    /\ Classify(f, attempt) = "retry"
    /\ caught' = f
    /\ delays' = Append(delays, BackoffDelay(attempt))
    /\ pc' = "backoff"
    /\ UNCHANGED <<upstreamVars, timeChunks, i, allBuckets, allChunkBuckets, nextPage,
                   pageCount, attempt, request, acc, result, error, chunkPages, maxAttempt>>

\* a request fails and the catch block throws: the query is over
PageFailedFatal(f) ==
    /\ pc = "request" /\ provider = "openai"
    /\ Classify(f, attempt) # "retry"
    /\ Throw(Classify(f, attempt), f)
    /\ UNCHANGED upstreamVars

\* a faulty variant: the attempt that failed is counted as a page received
BackoffElapsed_CountsPage ==
    /\ pc = "backoff" /\ provider = "openai"
    /\ attempt' = attempt + 1
    /\ pageCount' = pageCount + 1
    /\ caught' = NoFailure
    /\ pc' = "request"
    /\ UNCHANGED <<upstreamVars, timeChunks, i, allBuckets, allChunkBuckets, nextPage,
                   request, acc, result, error, delays, chunkPages, maxAttempt>>

\* the sleep ends: continue with the next attempt, the same query parameters
BackoffElapsed ==
    /\ pc = "backoff" /\ provider = "openai"
    /\ attempt' = attempt + 1
    /\ caught' = NoFailure
    /\ pc' = "request"
    /\ UNCHANGED <<upstreamVars, timeChunks, i, allBuckets, allChunkBuckets, nextPage,
                   pageCount, request, acc, result, error, delays, chunkPages, maxAttempt>>

(***************************************************************************)
(* The other adapters.  Their requests are not retried: a request is       *)
(* answered, or fails with one of AdapterFailures.                         *)
(***************************************************************************)
AdapterFailures ==
    {[kind |-> "http", status |-> s, body |-> "plain"] : s \in {401, 403, 404, 500}}
        \cup {[kind |-> "network", status |-> 0, body |-> "plain"]}

\* a step of an adapter that touches none of the locals of the OpenAI fetch
KeepFetch ==
    UNCHANGED <<upstreamVars, timeChunks, allBuckets, allChunkBuckets, nextPage,
                pageCount, attempt, request, delays, chunkPages, maxAttempt>>

\* the adapter returns costData
ReturnCostData(costData) ==
    /\ result' = costData
    /\ pc' = "done"
    /\ error' = error

\* the constructor of an adapter with a single account throws without a key:
\* there is no adapter to ask
ConstructorNoKey ==
    /\ pc = "start" /\ provider \in {"elevenlabs", "deepgram", "openrouter"}
    /\ ~ keyOk
    /\ Throw("nokey", NoKeyFailure)
    /\ UNCHANGED upstreamVars

(***************************************************************************)
(* AnthropicProvider.getCosts                                              *)
(***************************************************************************)
NumUsageEndpoints == 3

AnthropicNoWorkspace ==
    /\ pc = "start" /\ provider = "anthropic"
    /\ query.workspace = Undefined
    /\ Throw("workspace", NoFailure)
    /\ UNCHANGED upstreamVars

\* getAdminApiKey throws in every turn of the loop over the endpoints, each
\* time into the catch block of the loop: no request is sent
AnthropicNoKey ==
    /\ pc = "start" /\ provider = "anthropic"
    /\ query.workspace # Undefined
    /\ ~ keyOk
    /\ caught' = NoKeyFailure
    /\ ReturnCostData(UsageNotAvailable)
    /\ UNCHANGED <<i, acc>>
    /\ KeepFetch

AnthropicFirstRequest ==
    /\ pc = "start" /\ provider = "anthropic"
    /\ query.workspace # Undefined
    /\ keyOk
    /\ i' = 1
    /\ pc' = "await"
    /\ UNCHANGED <<caught, acc, result, error>>
    /\ KeepFetch

\* the request to an endpoint fails: on to the next endpoint
AnthropicEndpointFailedNext(f) ==
    /\ pc = "await" /\ provider = "anthropic"
    /\ i < NumUsageEndpoints
    /\ caught' = f
    /\ i' = i + 1
    /\ UNCHANGED <<pc, acc, result, error>>
    /\ KeepFetch

\* the request to the last endpoint fails
AnthropicEndpointFailedLast(f) ==
    /\ pc = "await" /\ provider = "anthropic"
    /\ i = NumUsageEndpoints
    /\ caught' = f
    /\ ReturnCostData(UsageNotAvailable)
    /\ UNCHANGED <<i, acc>>
    /\ KeepFetch

\* an endpoint answers: the loop ends
AnthropicEndpointAnswered ==
    /\ pc = "await" /\ provider = "anthropic"
    /\ LET usageData == upstream.body
       IN  IF usageData.isNull
           THEN /\ ReturnCostData(UsageNotAvailable)
                /\ acc' = acc
           ELSE /\ acc' = AddUsageEntries(EmptyAcc, UsageEntries(usageData))
                /\ ReturnCostData(AnthropicCostDataOf(acc'))
    /\ UNCHANGED <<i, caught>>
    /\ KeepFetch

(***************************************************************************)
(* ElevenLabsProvider.getCosts: requests 1 /user, 2 /user/subscription,    *)
(* 3 /usage/character-stats                                                *)
(***************************************************************************)
ElevenLabsFirstRequest ==
    /\ pc = "start" /\ provider = "elevenlabs"
    /\ keyOk
    /\ i' = 1
    /\ pc' = "await"
    /\ UNCHANGED <<caught, acc, result, error>>
    /\ KeepFetch

\* the user, or the subscription, arrives: the next request
ElevenLabsReceived ==
    /\ pc = "await" /\ provider = "elevenlabs"
    /\ i \in {1, 2}
    /\ i' = i + 1
    /\ UNCHANGED <<pc, caught, acc, result, error>>
    /\ KeepFetch

\* the user or the subscription request fails: the outer catch block
ElevenLabsFailed(f) ==
    /\ pc = "await" /\ provider = "elevenlabs"
    /\ i \in {1, 2}
    /\ Throw("wrapped", f)
    /\ UNCHANGED upstreamVars

ElevenLabsStatsReceived ==
    /\ pc = "await" /\ provider = "elevenlabs"
    /\ i = 3
    /\ ReturnCostData(IF HasPeriodStats(upstream.stats)
                      THEN PeriodCostData(upstream.user, upstream.subscription,
                                          upstream.stats)
                      ELSE MonthlyCostData(upstream.user, upstream.subscription))
    /\ UNCHANGED <<i, caught, acc>>
    /\ KeepFetch

\* the character-stats request fails: the inner catch block, monthly totals
ElevenLabsStatsFailed(f) ==
    /\ pc = "await" /\ provider = "elevenlabs"
    /\ i = 3
    /\ caught' = f
    /\ ReturnCostData(MonthlyCostData(upstream.user, upstream.subscription))
    /\ UNCHANGED <<i, acc>>
    /\ KeepFetch

(***************************************************************************)
(* DeepgramProvider.getCosts: requests 1 usage, 2 balances                 *)
(***************************************************************************)
DeepgramNoWorkspace ==
    /\ pc = "start" /\ provider = "deepgram"
    /\ keyOk
    /\ query.workspace = Undefined
    /\ Throw("workspace", NoFailure)
    /\ UNCHANGED upstreamVars

DeepgramFirstRequest ==
    /\ pc = "start" /\ provider = "deepgram"
    /\ keyOk
    /\ query.workspace # Undefined
    /\ i' = 1
    /\ pc' = "await"
    /\ UNCHANGED <<caught, acc, result, error>>
    /\ KeepFetch

DeepgramUsageReceived ==
    /\ pc = "await" /\ provider = "deepgram"
    /\ i = 1
    /\ i' = 2
    /\ UNCHANGED <<pc, caught, acc, result, error>>
    /\ KeepFetch

DeepgramUsageFailed(f) ==
    /\ pc = "await" /\ provider = "deepgram"
    /\ i = 1
    /\ Throw("wrapped", f)
    /\ UNCHANGED upstreamVars

DeepgramBalanceReceived ==
    /\ pc = "await" /\ provider = "deepgram"
    /\ i = 2
    /\ ReturnCostData(DeepgramCostData(upstream.usage, upstream.balances))
    /\ UNCHANGED <<i, caught, acc>>
    /\ KeepFetch

\* the balances request fails: balanceData stays null
DeepgramBalanceFailed(f) ==
    /\ pc = "await" /\ provider = "deepgram"
    /\ i = 2
    /\ caught' = f
    /\ ReturnCostData(DeepgramCostData(upstream.usage,
                                       [isNull |-> TRUE, balances |-> Undefined]))
    /\ UNCHANGED <<i, acc>>
    /\ KeepFetch

(***************************************************************************)
(* OpenRouterProvider.getCosts: requests 1 /auth/key, 2 /credits           *)
(***************************************************************************)
OpenRouterFirstRequest ==
    /\ pc = "start" /\ provider = "openrouter"
    /\ keyOk
    /\ i' = 1
    /\ pc' = "await"
    /\ UNCHANGED <<caught, acc, result, error>>
    /\ KeepFetch

OpenRouterKeyReceived ==
    /\ pc = "await" /\ provider = "openrouter"
    /\ i = 1
    /\ i' = 2
    /\ UNCHANGED <<pc, caught, acc, result, error>>
    /\ KeepFetch

OpenRouterFailed(f) ==
    /\ pc = "await" /\ provider = "openrouter"
    /\ Throw("wrapped", f)
    /\ UNCHANGED upstreamVars

OpenRouterCreditsReceived ==
    /\ pc = "await" /\ provider = "openrouter"
    /\ i = 2
    /\ ~ LimitRowThrows(Unwrapped(upstream.key))
    /\ ReturnCostData(OpenRouterCostData(upstream.key, upstream.credits,
                                         query.startDate, query.endDate))
    /\ UNCHANGED <<i, caught, acc>>
    /\ KeepFetch

\* limit.toFixed of an undefined limit throws a TypeError
TypeErrorFailure == [kind |-> "type", status |-> 0, body |-> "plain"]

OpenRouterCreditsReceivedThrows ==
    /\ pc = "await" /\ provider = "openrouter"
    /\ i = 2
    /\ LimitRowThrows(Unwrapped(upstream.key))
    /\ Throw("wrapped", TypeErrorFailure)
    /\ UNCHANGED upstreamVars

Next ==
    \/ GetCostsNoWorkspace
    \/ GetCostsNoWindow
    \/ GetCostsNoKey
    \/ GetCostsFirstRequest
    \/ PageReceivedMore
    \/ PageReceivedNextChunk
    \/ PageReceivedLast
    \/ \E f \in RequestFailures : PageFailedRetry(f)
    \/ \E f \in RequestFailures : PageFailedFatal(f)
    \/ BackoffElapsed
    \/ ConstructorNoKey
    \/ AnthropicNoWorkspace
    \/ AnthropicNoKey
    \/ AnthropicFirstRequest
    \/ \E f \in AdapterFailures : AnthropicEndpointFailedNext(f)
    \/ \E f \in AdapterFailures : AnthropicEndpointFailedLast(f)
    \/ AnthropicEndpointAnswered
    \/ ElevenLabsFirstRequest
    \/ ElevenLabsReceived
    \/ \E f \in AdapterFailures : ElevenLabsFailed(f)
    \/ ElevenLabsStatsReceived
    \/ \E f \in AdapterFailures : ElevenLabsStatsFailed(f)
    \/ DeepgramNoWorkspace
    \/ DeepgramFirstRequest
    \/ DeepgramUsageReceived
    \/ \E f \in AdapterFailures : DeepgramUsageFailed(f)
    \/ DeepgramBalanceReceived
    \/ \E f \in AdapterFailures : DeepgramBalanceFailed(f)
    \/ OpenRouterFirstRequest
    \/ OpenRouterKeyReceived
    \/ \E f \in AdapterFailures : OpenRouterFailed(f)
    \/ OpenRouterCreditsReceived
    \/ OpenRouterCreditsReceivedThrows

Spec == Init /\ [][Next]_vars

\* OpenAIProvider.getCosts alone, on one data set, where every request that
\* is sent is answered or fails and every sleep ends
InitLive ==
    /\ InitOpenAI /\ seed = 0 /\ query.projectId = Undefined
    /\ InitLocals
    /\ InitCache

NextLive ==
    \/ GetCostsNoWorkspace
    \/ GetCostsNoWindow
    \/ GetCostsNoKey
    \/ GetCostsFirstRequest
    \/ PageReceivedMore
    \/ PageReceivedNextChunk
    \/ PageReceivedLast
    \/ \E f \in RequestFailures : PageFailedRetry(f)
    \/ \E f \in RequestFailures : PageFailedFatal(f)
    \/ BackoffElapsed

\* What the runtime guarantees of one call, as the change each step of
\* NextLive makes to the position of the call.  Synchronous code runs up to
\* its next await: the steps of NextLive that leave "start".
SyncRuns ==
    /\ pc = "start" /\ provider = "openai"
    /\ pc' \in {"request", "done", "failed"}

\* The awaited fetch settles, with a body or with an error: the steps of
\* NextLive taken at "request", each of which moves pc, pageCount or i.
FetchSettles ==
    /\ pc = "request" /\ provider = "openai"
    /\ pc' \in {"request", "backoff", "done", "failed"}
    /\ pageCount' \in 0 .. MAX_PAGES_PER_CHUNK
    /\ i' \in 1 .. Len(timeChunks)

\* The awaited setTimeout of the backoff fires: BackoffElapsed.
SleepElapses ==
    /\ pc = "backoff" /\ provider = "openai"
    /\ pc' = "request"

SpecLive ==
    /\ InitLive /\ [][NextLive]_vars
    /\ WF_pc(SyncRuns)
    /\ WF_<<pc, pageCount, i>>(FetchSettles)
    /\ WF_pc(SleepElapses)

(***************************************************************************)
(* What the upstream holds, for the statements below                       *)
(***************************************************************************)
\* the buckets of pages lo..hi of window w, in page order
RECURSIVE UpstreamPageRange(_, _, _)
UpstreamPageRange(w, lo, hi) ==
    IF lo > hi THEN <<>>
    ELSE IF lo = hi THEN (IF PageHasData(seed, w, lo) THEN PageData(seed, w, lo) ELSE <<>>)
    ELSE LET mid == (lo + hi) \div 2
         IN  UpstreamPageRange(w, lo, mid) \o UpstreamPageRange(w, mid + 1, hi)

UpstreamPages(w, n) == UpstreamPageRange(w, 1, n)

\* the buckets of windows 1..k, window w taken up to page Pages(w)
RECURSIVE UpstreamWindows(_, _)
UpstreamWindows(k, pages) ==
    IF k = 0 THEN <<>>
    ELSE UpstreamWindows(k - 1, pages) \o UpstreamPages(k, pages[k])

AllPages == avail
PagesUpToCeiling == [w \in DOMAIN avail |-> IF avail[w] <= 50 THEN avail[w] ELSE 50]

\* the CostData the pipeline computes from a list of buckets
CostDataFrom(buckets) == CostDataOf(ParseBuckets(EmptyAcc, buckets))

C3_RetrySemantics ==
    provider = "openai" =>
        /\ pc = "request" =>
              delays = (CASE attempt = 1 -> <<>>
                          [] attempt = 2 -> <<2000>>
                          [] attempt = 3 -> <<2000, 4000>>
                          [] OTHER -> <<0>>)
        /\ pc = "backoff" =>
              /\ ~ (caught.kind = "http" /\ caught.status \in {403, 404})
              /\ delays = (CASE attempt = 1 -> <<2000>>
                             [] attempt = 2 -> <<2000, 4000>>
                             [] OTHER -> <<0>>)
        /\ pc = "failed" /\ error.attempt = 1 => error.delays = <<>>
        /\ pc = "done" /\ maxAttempt = 3 =>
              result = CostDataFrom(UpstreamWindows(Len(avail), PagesUpToCeiling))

\* a query one of whose requests failed twice and then succeeded has returned
C3_Witness ==
    /\ pc = "done" /\ provider = "openai"
    /\ maxAttempt = 3
    /\ result.breakdown # <<>>

(***************************************************************************)
(* C4.  Retry exhaustion is fatal: a request is attempted at most 3 times, *)
(* the attempt counter restarts at 1 for each page, a sleep is followed by *)
(* the next attempt of the same request, and a failure of attempt 3 is     *)
(* never followed by a sleep: getCosts throws and returns nothing.         *)
(***************************************************************************)
C4_Step ==
    provider = "openai" =>
        /\ pc' = "request" => attempt' \in 1..3
        /\ pc = "request" /\ pc' = "request" => attempt' = 1
        /\ pc = "request" /\ attempt = 3 => pc' \in {"request", "done", "failed"}
        /\ pc = "backoff" =>
              pc' = "request" /\ attempt' = attempt + 1 /\ request' = request
        /\ pc' = "failed" => result' = NoResult /\ error' # NoError

C4_RetryExhaustionFatal == [][C4_Step]_vars

\* three attempts of one request met a 503 and the query failed
C4_Witness ==
    /\ pc = "failed" /\ provider = "openai"
    /\ error.attempt = 3
    /\ error.cause.kind = "http" /\ error.cause.status = 503
    /\ error.delays = <<2000, 4000>>

(***************************************************************************)
(* C7.  Aggregation conservation: when all windows are fetched there is    *)
(* one accumulator for each model identifier that occurs in an entry of    *)
(* the collected buckets (an entry without identifier counts as            *)
(* 'unknown'), it holds the sums of the input tokens, output tokens and    *)
(* request counts of the entries of that model, and the accumulators add   *)
(* up to the overall totals.                                               *)
(***************************************************************************)
\* the entries of a bucket: its results, or the bucket itself, or none
EntriesOfBucket(b) ==
    IF b.results # Undefined THEN b.results[1]
    ELSE IF b.input_tokens # Undefined \/ b.output_tokens # Undefined THEN <<b>>
    ELSE <<>>

RECURSIVE EntriesOfRange(_, _, _)
EntriesOfRange(buckets, lo, hi) ==
    IF lo > hi THEN <<>>
    ELSE IF lo = hi THEN EntriesOfBucket(buckets[lo])
    ELSE LET mid == (lo + hi) \div 2
         IN  EntriesOfRange(buckets, lo, mid) \o EntriesOfRange(buckets, mid + 1, hi)

EntriesOf(buckets) == EntriesOfRange(buckets, 1, Len(buckets))

ModelKeyOf(e) == IF e.model = Undefined \/ e.model[1] = "" THEN "unknown" ELSE e.model[1]

Given(x) == IF x = Undefined THEN 0 ELSE x[1]

\* the sum of f[k] over the indices k of S
RECURSIVE SumRange(_, _, _, _)
SumRange(f, S, lo, hi) ==
    IF lo > hi THEN 0
    ELSE IF lo = hi THEN (IF lo \in S THEN f[lo] ELSE 0)
    ELSE LET mid == (lo + hi) \div 2
         IN  SumRange(f, S, lo, mid) + SumRange(f, S, mid + 1, hi)

SumIdx(f, S) == SumRange(f, S, 1, Len(f))

C9_CostComputation ==
    pc = "done" /\ provider = "openai" =>
        LET mm == acc.modelMap
            rows == result.breakdown
            Name(m) == IF m = "unknown" THEN "Unknown Model" ELSE m
        IN  /\ Len(rows) = Len(mm)
            /\ \A k \in DOMAIN mm :
                  LET price == OpenAIPricing(mm[k].model)
                  IN  \E r \in DOMAIN rows :
                        /\ rows[r].model = Name(mm[k].model)
                        /\ rows[r].requests = mm[k].requests
                        /\ rows[r].cost_usd = mm[k].inputTokens * price.input
                                                + mm[k].outputTokens * price.output
                        /\ (mm[k].inputTokens = 100 /\ mm[k].outputTokens = 50
                              /\ price.input = 250 /\ price.output = 1000)
                             => rows[r].cost_usd = 75000
                        /\ (mm[k].inputTokens = 1000000 /\ mm[k].outputTokens = 500000
                              /\ price.input = 250 /\ price.output = 1000)
                             => rows[r].cost_usd = 750000000
            /\ result.total_cost_usd
                   = SumIdx([r \in DOMAIN rows |-> rows[r].cost_usd], DOMAIN rows)

\* the two models of the example were priced: total 7.50075 USD
C9_Witness ==
    /\ pc = "done" /\ provider = "openai"
    /\ Len(result.breakdown) = 2
    /\ {result.breakdown[r].cost_usd : r \in DOMAIN result.breakdown} = {75000, 750000000}
    /\ result.total_cost_usd = 750075000

(***************************************************************************)
(* The time chunks of getCosts on their own: any two dates, to the         *)
(* millisecond, and the loop that cuts the range into windows.             *)
(***************************************************************************)
\* the epoch, and 2024-01-01 as a day since the epoch
ChunkStartDays == {0, 19723}
ChunkMillis == {0, 999, 1500, 86399999}

\* spans, in days, around every multiple of the window length
ChunkSpanDays ==
    {-1, 0, 1}
        \cup {MAX_DAYS_PER_REQUEST * k + d : k \in 1..MaxChunks, d \in {-1, 0, 1}}

ChunkQueries ==
    {[workspace |-> Some("production"), projectId |-> Undefined,
      startDate |-> [day |-> s, ms |-> a], endDate |-> [day |-> s + d, ms |-> b]] :
        s \in ChunkStartDays, d \in ChunkSpanDays, a \in ChunkMillis, b \in ChunkMillis}

InitChunk ==
    /\ provider = "openai"
    /\ query \in ChunkQueries
    /\ query.endDate.day >= 0
    /\ keyOk = TRUE
    /\ seed = 0
    /\ avail = <<>>
    /\ upstream = NoUpstream
    /\ InitLocals
    /\ InitCache

\* getCosts up to the end of the while loop that generates the time chunks
GenerateTimeChunks ==
    /\ pc = "start"
    /\ timeChunks' = TimeChunks(ToTimestamp(query.startDate), ToTimestamp(query.endDate))
    /\ pc' = "chunked"
    /\ UNCHANGED <<upstreamVars, i, allBuckets, allChunkBuckets, nextPage, pageCount,
                   attempt, request, caught, acc, result, error, delays, chunkPages,
                   maxAttempt>>

NextChunk == GenerateTimeChunks

SpecChunk == InitChunk /\ [][NextChunk]_vars

(***************************************************************************)
(* C6.  Chunking correctness: for start and end timestamps with            *)
(* end > start the windows partition [start, end): the first starts at     *)
(* start, the last ends at end, each ends where the next starts, each is   *)
(* longer than 0 and at most 30 days, and there are                        *)
(* ceil((end - start) / 30 days) of them, one when the range fits.         *)
(***************************************************************************)
ThirtyDays == 30 * 24 * 60 * 60

CeilDiv(a, b) == (a + b - 1) \div b

C6_ChunkingCorrectness ==
    LET start == query.startDate.day * 86400 + (query.startDate.ms \div 1000)
        end == query.endDate.day * 86400 + (query.endDate.ms \div 1000)
        n == Len(timeChunks)
    IN  pc = "chunked" /\ end > start =>
            /\ n >= 1
            /\ timeChunks[1].start = start
            /\ timeChunks[n].end = end
            /\ \A k \in 1..(n - 1) : timeChunks[k].end = timeChunks[k + 1].start
            /\ \A k \in 1..n :
                  /\ timeChunks[k].end - timeChunks[k].start > 0
                  /\ timeChunks[k].end - timeChunks[k].start <= ThirtyDays
            /\ n = CeilDiv(end - start, ThirtyDays)
            /\ (end - start <= ThirtyDays => n = 1)

\* a range that does not start at midnight was cut into several windows, the
\* last of them shorter than the others
C6_Witness ==
    /\ pc = "chunked"
    /\ query.startDate.ms # 0
    /\ Len(timeChunks) >= 3
    /\ timeChunks[Len(timeChunks)].end - timeChunks[Len(timeChunks)].start < ThirtyDays
    /\ timeChunks[1].end - timeChunks[1].start = ThirtyDays

(***************************************************************************)
(* The pricing of getCosts on its own: one accumulated model, of any       *)
(* identifier the upstream may send, and the loop that prices modelMap.    *)
(***************************************************************************)
ModelIdentifiers == DOMAIN Chars \ {""}

PricedInputTokens == {0, 100, 100000}
PricedOutputTokens == {0, 50, 100000}

InitPricing ==
    /\ provider = "openai"
    /\ query \in {q \in Queries : q.workspace # Undefined /\ q.projectId = Undefined
                                    /\ q.endDate.day = 2}
    /\ keyOk = TRUE
    /\ seed = 0
    /\ avail = <<1>>
    /\ upstream = NoUpstream
    /\ pc = "aggregated"
    /\ \E model \in ModelIdentifiers, inp \in PricedInputTokens, out \in PricedOutputTokens :
          acc = [EmptyAcc EXCEPT
                    !.modelMap = <<[model |-> model, inputTokens |-> inp,
                                    outputTokens |-> out, requests |-> 1]>>,
                    !.totalInputTokens = inp, !.totalOutputTokens = out,
                    !.totalRequests = 1, !.bucketsWithResults = 1,
                    !.totalResultsProcessed = 1]
    /\ timeChunks = <<>> /\ i = 0 /\ allBuckets = <<>> /\ allChunkBuckets = <<>>
    /\ nextPage = Undefined /\ pageCount = 0 /\ attempt = 0 /\ request = NoRequest
    /\ caught = NoFailure /\ result = NoResult /\ error = NoError /\ delays = <<>>
    /\ chunkPages = <<>> /\ maxAttempt = 0
    /\ InitCache

\* getCosts from the filled modelMap to the returned CostData
PriceModels ==
    /\ pc = "aggregated"
    /\ result' = CostDataOf(acc)
    /\ pc' = "priced"
    /\ UNCHANGED <<upstreamVars, timeChunks, i, allBuckets, allChunkBuckets, nextPage,
                   pageCount, attempt, request, caught, acc, error, delays, chunkPages,
                   maxAttempt>>

NextPricing == PriceModels

SpecPricing == InitPricing /\ [][NextPricing]_vars

(***************************************************************************)
(* C8.  Pricing fallback order: for every model identifier the resolver    *)
(* uses the table entry of exactly that identifier when there is one,      *)
(* otherwise a prefix/heuristic match when there is one, otherwise the     *)
(* 'default' tuple; an identifier that matches nothing resolves to the     *)
(* default tuple, and the model is priced with the tuple resolved.         *)
(***************************************************************************)
TableKeys == {MODEL_PRICING[k].key : k \in DOMAIN MODEL_PRICING}

TupleOfKey(key) ==
    LET e == MODEL_PRICING[CHOOSE k \in DOMAIN MODEL_PRICING : MODEL_PRICING[k].key = key]
    IN  <<e.input, e.output>>

\* key is a prefix of the model, or starts with the model's first two parts
MatchesKey(model, key) ==
    StartsWith(model, key) \/ StartsWithChars(key, SplitSliceJoin(model, 2))

C8_PricingFallbackOrder ==
    pc = "priced" =>
        LET m == acc.modelMap[1]
            resolved == OpenAIPricing(m.model)
            tuple == <<resolved.input, resolved.output>>
            matching == {key \in TableKeys : MatchesKey(m.model, key)}
        IN  /\ m.model \in TableKeys => tuple = TupleOfKey(m.model)
            /\ m.model \notin TableKeys /\ matching # {} =>
                   \E key \in matching : tuple = TupleOfKey(key)
            /\ m.model \notin TableKeys /\ matching = {} => tuple = TupleOfKey("default")
            /\ result.breakdown[1].cost_usd
                   = m.inputTokens * tuple[1] + m.outputTokens * tuple[2]

(***************************************************************************)
(* C5.  Authentication/permission failures are fatal for every adapter:    *)
(* once the key is missing or a usage request was rejected with 401 or     *)
(* 403, getCosts has thrown: nothing is retried or awaited any more and    *)
(* no CostData is returned, the -1 result included.                        *)
(***************************************************************************)
IsAuthFailure(f) ==
    f.kind = "nokey" \/ (f.kind = "http" /\ f.status \in {401, 403})

\* a failure a catch block of getCosts got from a usage request (the only
\* request that is not one is Deepgram's for the balances)
CaughtOnUsageRequest == IF provider = "deepgram" THEN NoFailure ELSE caught

C5_AuthFailuresFatal ==
    IsAuthFailure(error.cause) \/ IsAuthFailure(CaughtOnUsageRequest) =>
        pc = "failed" /\ result = NoResult

C11_BreakdownDescending ==
    pc = "done" =>
        \A r \in 1..(Len(result.breakdown) - 1) :
            result.breakdown[r].cost_usd >= result.breakdown[r + 1].cost_usd

(***************************************************************************)
(* C12.  Sentinel distinctness: when the loop over the usage endpoints of  *)
(* the Anthropic adapter ends, getCosts returns and does not raise; when   *)
(* no endpoint yielded data (the last request failed, or the answer was    *)
(* null) the CostData has total_cost_usd = -1 and exactly one explanatory  *)
(* row of cost 0; when an endpoint yielded data the CostData is computed   *)
(* from that data and its total is not -1.                                 *)
(***************************************************************************)
IsSentinel(costData) ==
    /\ costData.total_cost_usd = -1
    /\ Len(costData.breakdown) = 1
    /\ costData.breakdown[1].cost_usd = 0
    /\ costData.breakdown[1].requests = 0

C12_Step ==
    provider = "anthropic" /\ pc = "await" /\ pc' # "await" =>
        /\ pc' = "done" /\ error' = NoError
        /\ (caught' # caught \/ upstream.body.isNull) => IsSentinel(result')
        /\ \/ IsSentinel(result')
           \/ /\ ~ upstream.body.isNull
              /\ result' = AnthropicCostDataOf(
                               AddUsageEntries(EmptyAcc, UsageEntries(upstream.body)))
              /\ result'.total_cost_usd >= 0

DEFAULT_TTL == 5 * 60 * 1000

\* the clock is followed for this many times the TTL
MaxClockTtls == 2

MaxClock == MaxClockTtls * (DEFAULT_TTL + 1)

\* `${provider}_${workspaceKey}_${projectId}_${dateRange}`; an undefined
\* projectId is printed as 'undefined'
generateCacheKey(prov, workspace, projectId, startDate, endDate) ==
    LET workspaceKey == IF workspace = Undefined \/ workspace[1] = <<>>
                        THEN <<"none">> ELSE workspace[1]
        project == IF projectId = Undefined THEN <<"undefined">> ELSE projectId[1]
        dateRange == startDate \o <<"_">> \o endDate
    IN  prov \o <<"_">> \o workspaceKey \o <<"_">> \o project \o <<"_">> \o dateRange

\* a faulty variant: an entry is expired as soon as its age reaches the ttl
getFromCache_ExpiredAtTtl(c, key, ttl, t) ==
    IF key \notin DOMAIN c THEN [value |-> Undefined, cache |-> c]
    ELSE IF t - c[key].timestamp >= ttl
         THEN [value |-> Undefined, cache |-> [k \in DOMAIN c \ {key} |-> c[k]]]
         ELSE [value |-> Some(c[key].data), cache |-> c]

\* getFromCache(key, ttl) at time t: the value returned (Undefined for null)
\* and the Map afterwards
getFromCache(c, key, ttl, t) ==
    IF key \notin DOMAIN c THEN [value |-> Undefined, cache |-> c]
    ELSE IF t - c[key].timestamp > ttl
         THEN [value |-> Undefined, cache |-> [k \in DOMAIN c \ {key} |-> c[k]]]
         ELSE [value |-> Some(c[key].data), cache |-> c]

\* setCache(key, data) at time t: the Map afterwards
setCache(c, key, data, t) ==
    [k \in DOMAIN c \cup {key} |->
        IF k = key THEN [data |-> data, timestamp |-> t] ELSE c[k]]

\* a faulty variant: invalidating one key empties the Map
invalidateCache_All(c, key) == <<>>

\* invalidateCache(key): the Map afterwards
invalidateCache(c, key) == [k \in DOMAIN c \ {key} |-> c[k]]

\* clearAllCache(): the Map afterwards
clearAllCache(c) == <<>>

\* new Date(ms).toISOString(): the day since the epoch and the time of day
ToISOString(ms) == [day |-> ms \div (24 * 3600 * 1000), time |-> ms % (24 * 3600 * 1000)]

\* getCacheTimestamp(key): the ISO string of the entry's timestamp, or null
getCacheTimestamp(c, key) ==
    IF key \notin DOMAIN c THEN Undefined ELSE Some(ToISOString(c[key].timestamp))

\* /^\d{4}-\d{2}-\d{2}$/.test(s)
Digits == {"0", "1", "2", "3", "4", "5", "6", "7", "8", "9"}
DateRegexTest(s) ==
    /\ Len(s) = 10
    /\ \A p \in {1, 2, 3, 4, 6, 7, 9, 10} : s[p] \in Digits
    /\ s[5] = "-" /\ s[8] = "-"

\* providerRegistry, and supportsWorkspaces of the instances
SupportsWorkspaces ==
    <<"openai">> :> TRUE @@ <<"anthropic">> :> TRUE @@ <<"elevenlabs">> :> FALSE
        @@ <<"deepgram">> :> TRUE @@ <<"openrouter">> :> FALSE

\* searchParams.get(name) || undefined
OrUndefined(x) == IF x = Undefined \/ x[1] = <<>> THEN Undefined ELSE x

\* what GET answers before it asks the provider: 400 for a parameter that is
\* missing or malformed, 500 when getProvider throws, 0 to go on
Validate(q) ==
    IF q.provider = Undefined \/ q.provider[1] = <<>> THEN 400
    ELSE IF q.start_date = Undefined \/ q.start_date[1] = <<>> THEN 400
    ELSE IF q.end_date = Undefined \/ q.end_date[1] = <<>> THEN 400
    ELSE IF ~ DateRegexTest(q.start_date[1]) \/ ~ DateRegexTest(q.end_date[1]) THEN 400
    ELSE IF q.provider[1] \notin DOMAIN SupportsWorkspaces THEN 500
    ELSE IF SupportsWorkspaces[q.provider[1]] /\ OrUndefined(q.workspace) = Undefined THEN 400
    ELSE 0

CacheKeyOf(q) ==
    generateCacheKey(q.provider[1], OrUndefined(q.workspace), OrUndefined(q.project_id),
                     q.start_date[1], q.end_date[1])

\* the queries that come in
DateJan1 == <<"2", "0", "2", "4", "-", "0", "1", "-", "0", "1">>
DateJan31 == <<"2", "0", "2", "4", "-", "0", "1", "-", "3", "1">>
DateSlashes == <<"0", "1", "/", "3", "1", "/", "2", "0", "2", "4">>
RouteQuery(prov, workspace, project, startDate, endDate) ==
    [provider |-> prov, workspace |-> workspace, project_id |-> project,
     start_date |-> startDate, end_date |-> endDate]
RouteQueries ==
    { RouteQuery(Some(<<"openai">>), Some(<<"ws">>), Undefined, Some(DateJan1), Some(DateJan31)),
      RouteQuery(Some(<<"elevenlabs">>), Undefined, Some(<<"account">>),
                 Some(DateJan1), Some(DateJan31)),
      RouteQuery(Undefined, Some(<<"ws">>), Undefined, Some(DateJan1), Some(DateJan31)),
      RouteQuery(Some(<<"openai">>), Some(<<"ws">>), Undefined, Undefined, Some(DateJan31)),
      RouteQuery(Some(<<"openai">>), Some(<<"ws">>), Undefined, Some(DateJan1), Undefined),
      RouteQuery(Some(<<"openai">>), Some(<<"ws">>), Undefined, Some(DateJan1), Some(DateSlashes)),
      RouteQuery(Some(<<"mistral">>), Undefined, Undefined, Some(DateJan1), Some(DateJan31)),
      RouteQuery(Some(<<"openai">>), Some(<<>>), Undefined, Some(DateJan1), Some(DateJan31)) }

\* the keys the callers of the cache module use, and the values they store
CacheKeys == {CacheKeyOf(q) : q \in {q \in RouteQueries : Validate(q) = 0}}
CostResults ==
    { NoResult,
      [total_cost_usd |-> 750,
       breakdown |-> << [model |-> "gpt-4o", cost_usd |-> 750, requests |-> 1] >>] }
Ttls == {DEFAULT_TTL}

InitCacheSpec ==
    /\ provider = "openai"
    /\ query = CHOOSE q \in Queries : q.workspace # Undefined /\ q.projectId = Undefined
                                         /\ q.endDate.day = 2
    /\ keyOk = TRUE
    /\ seed = 0
    /\ avail = <<1>>
    /\ upstream = NoUpstream
    /\ InitLocals
    /\ InitCache

\* the variables of getCosts: to the route it is one awaited call
getCostsVars ==
    <<provider, query, keyOk, seed, avail, upstream, pc, timeChunks, i, allBuckets,
      allChunkBuckets, nextPage, pageCount, attempt, request, caught, acc, result,
      error, delays, chunkPages, maxAttempt>>

\* time passes
Tick(d) ==
    /\ now + d <= MaxClock
    /\ now' = now + d
    /\ UNCHANGED <<getCostsVars, cache, route, returned>>

\* some caller calls getFromCache(key, ttl)
CallGetFromCache(key, ttl) ==
    LET r == getFromCache(cache, key, ttl, now)
    IN  /\ cache' = r.cache
        /\ returned' = [op |-> "getFromCache", key |-> key, ttl |-> ttl,
                        data |-> NoResult, value |-> r.value, at |-> now]
        /\ UNCHANGED <<getCostsVars, now, route>>

\* some caller calls setCache(key, data)
CallSetCache(key, data) ==
    /\ cache' = setCache(cache, key, data, now)
    /\ returned' = [op |-> "setCache", key |-> key, ttl |-> 0, data |-> data,
                    value |-> Undefined, at |-> now]
    /\ UNCHANGED <<getCostsVars, now, route>>

\* some caller calls invalidateCache(key)
CallInvalidateCache(key) ==
    /\ cache' = invalidateCache(cache, key)
    /\ returned' = [op |-> "invalidateCache", key |-> key, ttl |-> 0, data |-> NoResult,
                    value |-> Undefined, at |-> now]
    /\ UNCHANGED <<getCostsVars, now, route>>

\* some caller calls clearAllCache()
CallClearAllCache ==
    /\ cache' = clearAllCache(cache)
    /\ returned' = [op |-> "clearAllCache", key |-> <<>>, ttl |-> 0, data |-> NoResult,
                    value |-> Undefined, at |-> now]
    /\ UNCHANGED <<getCostsVars, now, route>>

\* some caller calls getCacheTimestamp(key)
CallGetCacheTimestamp(key) ==
    /\ returned' = [op |-> "getCacheTimestamp", key |-> key, ttl |-> 0, data |-> NoResult,
                    value |-> getCacheTimestamp(cache, key), at |-> now]
    /\ UNCHANGED <<getCostsVars, cache, now, route>>

\* GET with a query that is answered before the provider is asked
RouteGetRejected(r, q) ==
    /\ route[r].pc # "getCosts"
    /\ Validate(q) # 0
    /\ route' = [route EXCEPT ![r] =
                    [pc |-> "responded", query |-> q, cacheKey |-> <<>>,
                     response |-> [status |-> Validate(q), body |-> NoResult]]]
    /\ UNCHANGED <<getCostsVars, cache, now, returned>>

\* GET up to the await of providerInstance.getCosts: the lookup in the cache
\* is commented out
RouteGet(r, q) ==
    /\ route[r].pc # "getCosts"
    /\ Validate(q) = 0
    /\ route' = [route EXCEPT ![r] =
                    [pc |-> "getCosts", query |-> q, cacheKey |-> CacheKeyOf(q),
                     response |-> NoResponse]]
    /\ UNCHANGED <<getCostsVars, cache, now, returned>>

\* getCosts returns costData: setCache(cacheKey, costData), and the answer
RouteGetCostsReturned(r, costData) ==
    /\ route[r].pc = "getCosts"
    /\ cache' = setCache(cache, route[r].cacheKey, costData, now)
    /\ returned' = [op |-> "setCache", key |-> route[r].cacheKey, ttl |-> 0,
                    data |-> costData, value |-> Undefined, at |-> now]
    /\ route' = [route EXCEPT ![r].pc = "responded",
                              ![r].response = [status |-> 200, body |-> costData]]
    /\ UNCHANGED <<getCostsVars, now>>

\* getCosts throws: the catch block answers 500
RouteGetCostsThrew(r) ==
    /\ route[r].pc = "getCosts"
    /\ route' = [route EXCEPT ![r].pc = "responded",
                              ![r].response = [status |-> 500, body |-> NoResult]]
    /\ UNCHANGED <<getCostsVars, cache, now, returned>>

NextCache ==
    \/ \E d \in {DEFAULT_TTL, DEFAULT_TTL + 1} : Tick(d)
    \/ \E key \in CacheKeys, ttl \in Ttls : CallGetFromCache(key, ttl)
    \/ \E key \in CacheKeys, data \in CostResults : CallSetCache(key, data)
    \/ \E key \in CacheKeys : CallInvalidateCache(key)
    \/ CallClearAllCache
    \/ \E key \in CacheKeys : CallGetCacheTimestamp(key)
    \/ \E r \in RouteRequests, q \in RouteQueries : RouteGetRejected(r, q)
    \/ \E r \in RouteRequests, q \in RouteQueries : RouteGet(r, q)
    \/ \E r \in RouteRequests, costData \in CostResults : RouteGetCostsReturned(r, costData)
    \/ \E r \in RouteRequests : RouteGetCostsThrew(r)

SpecCache == InitCacheSpec /\ [][NextCache]_vars

(***************************************************************************)
(* C13.  The result cache sits in front of the pipeline: a GET whose query *)
(* passes the checks and whose cache key holds an entry not older than the *)
(* TTL is answered 200 with the cached CostData, and getCosts is not       *)
(* awaited.                                                                *)
(***************************************************************************)
FreshEntry(key) == key \in DOMAIN cache /\ now - cache[key].timestamp <= DEFAULT_TTL

C13_Step ==
    \A r \in RouteRequests :
        LET q == route'[r].query
        IN  /\ route[r].pc # "getCosts"
            /\ route'[r] # route[r]
            /\ Validate(q) = 0
            /\ FreshEntry(CacheKeyOf(q))
            => /\ route'[r].pc = "responded"
               /\ route'[r].response = [status |-> 200, body |-> cache[CacheKeyOf(q)].data]

C13_CacheInFront == [][C13_Step]_vars

(***************************************************************************)
(* C14.  Cache TTL: a getFromCache(k) with the default TTL that follows a  *)
(* setCache(k, v) returns v, and leaves the Map alone, when no time or at  *)
(* most the TTL has passed since the set, and returns null and removes the *)
(* entry of k when more than the TTL has passed; every setCache(k, v)      *)
(* stores v with the time of the call, whatever was stored and removed     *)
(* before, so the TTL of v counts from that set.                           *)
(***************************************************************************)
C14_Step ==
    /\ returned' # returned /\ returned'.op = "setCache" =>
          /\ returned'.key \in DOMAIN cache'
          /\ cache'[returned'.key] = [data |-> returned'.data, timestamp |-> now]
    /\ /\ returned.op = "setCache"
       /\ returned'.op = "getFromCache"
       /\ returned'.key = returned.key
       /\ returned'.ttl = DEFAULT_TTL
       => IF now - returned.at > DEFAULT_TTL
          THEN /\ returned'.value = Undefined
               /\ returned'.key \notin DOMAIN cache'
          ELSE /\ returned'.value = Some(returned.data)
               /\ cache' = cache

C14_CacheTtl == [][C14_Step]_vars

\* a value stored after the TTL of an earlier one ran out is returned a whole
\* TTL after it was stored
C14_Witness ==
    /\ returned.op = "getFromCache"
    /\ returned.value = Some([total_cost_usd |-> 750,
                              breakdown |-> << [model |-> "gpt-4o", cost_usd |-> 750,
                                                requests |-> 1] >>])
    /\ returned.at = 2 * DEFAULT_TTL + 1
    /\ cache[returned.key].timestamp = DEFAULT_TTL + 1

(***************************************************************************)
(* C15.  Retry classification: a failed page request is retried exactly    *)
(* when the failure is transient (HTTP 503, or a timeout) and fewer than 3 *)
(* attempts were made, whatever the error body says: the catch block       *)
(* sleeps only on a transient failure, and a query fails on a transient    *)
(* failure only at the third attempt.                                      *)
(***************************************************************************)
IsTransient(f) == (f.kind = "http" /\ f.status = 503) \/ f.kind = "timeout"

C15_RetryClassification ==
    provider = "openai" =>
        /\ pc = "backoff" => IsTransient(caught) /\ attempt < 3
        /\ pc = "failed" /\ IsTransient(error.cause) => error.attempt = 3

(***************************************************************************)
(* C16.  Bounded pagination and termination: a window is never read for    *)
(* more than 50 pages nor a request attempted more than 3 times, whatever  *)
(* the upstream reports, and when every request is eventually answered     *)
(* getCosts eventually returns or throws.                                  *)
(***************************************************************************)
C16_BoundedPagination ==
    /\ [](provider = "openai" =>
             /\ pageCount <= 50
             /\ attempt <= 3
             /\ \A w \in DOMAIN chunkPages : chunkPages[w] <= 50)
    /\ <>(pc \in {"done", "failed"})

\* the upstream still reported more pages when the window was left
C16_Witness ==
    /\ provider = "openai" /\ pc = "done"
    /\ \E w \in DOMAIN chunkPages : chunkPages[w] = 50 /\ avail[w] > 50

(***************************************************************************)
(* C17.  Strictly sequential windows: the request in flight is one of the  *)
(* window i being fetched, the collected list holds the pages of windows   *)
(* 1..i-1 in window order then page order and the window's list the pages  *)
(* received of window i; the window of the request changes only to the     *)
(* next window in time, in the step that receives the last page of the     *)
(* window and appends the window's list to the collected list.             *)
(***************************************************************************)
Fetching == provider = "openai" /\ pc \in {"request", "backoff"}

C17_Sequential ==
    Fetching =>
        /\ i \in 1 .. Len(timeChunks)
        /\ request.start_time = timeChunks[i].start
        /\ request.end_time = timeChunks[i].end
        /\ WindowOf(request, ToTimestamp(query.startDate)) = i
        /\ Len(chunkPages) = i - 1
        /\ \A w \in DOMAIN chunkPages : chunkPages[w] = PagesUpToCeiling[w]
        /\ allBuckets = UpstreamWindows(i - 1, PagesUpToCeiling)
        /\ allChunkBuckets = UpstreamPages(i, pageCount)

C17_Step ==
    Fetching /\ Fetching' /\ request'.start_time # request.start_time =>
        /\ pc = "request"
        /\ i' = i + 1
        /\ request'.start_time = request.end_time
        /\ request'.start_time > request.start_time
        /\ ~ MorePages(NextPageOf(Answer), pageCount + 1)
        /\ allBuckets' = allBuckets \o UpstreamPages(i, pageCount + 1)
        /\ allChunkBuckets' = <<>>

C17_SequentialWindows == [](C17_Sequential) /\ [][C17_Step]_vars

\* the second window is being fetched after a first window of several pages
C17_Witness ==
    /\ Fetching /\ i = 2
    /\ chunkPages[1] > 1
    /\ allBuckets = UpstreamPages(1, chunkPages[1])
    /\ Len(allBuckets) > chunkPages[1]

(***************************************************************************)
(* C18.  Continuation-token protocol: the first request of a window        *)
(* carries no page token; the request after a received page carries the    *)
(* next_page token of that page's response, which the upstream issued for  *)
(* the same window; the attempt after a sleep repeats the bounds and the   *)
(* token of the attempt that failed.                                       *)
(***************************************************************************)
C18_Tokens ==
    Fetching =>
        /\ request.page = nextPage
        /\ pageCount = 0 => request.page = Undefined
        /\ request.page # Undefined => request.page[1].w = i

C18_Step ==
    /\ Fetching' /\ pc' = "request" /\ (pc = "start" \/ i' # i) =>
           request'.page = Undefined
    /\ Fetching /\ pc = "request" /\ Fetching' /\ i' = i /\ pc' = "request" =>
           /\ Answer.has_more
           /\ request'.page = Answer.next_page
           /\ request'.page # Undefined
           /\ request'.page[1].w = WindowOf(request, ToTimestamp(query.startDate))
           /\ request'.start_time = request.start_time
           /\ request'.end_time = request.end_time
    /\ Fetching /\ (pc = "backoff" \/ pc' = "backoff") /\ Fetching' =>
           request' = request

C18_ContinuationToken == [](C18_Tokens) /\ [][C18_Step]_vars

\* the second page of the second window is asked for again after a failure,
\* the first window having handed out a token too
C18_Witness ==
    /\ Fetching /\ pc = "request"
    /\ i = 2 /\ pageCount = 1 /\ attempt = 2
    /\ chunkPages[1] = 2
    /\ request.page = Some(PageToken(2, 2))

(***************************************************************************)
(* C19.  No double counting under retry: a step of a failed attempt, the   *)
(* catch block going to sleep or the sleep ending, leaves the window's     *)
(* list, the collected list, the page count and the continuation token as  *)
(* they were; the step that receives a page adds the buckets of that page  *)
(* once, whatever the number of the attempt; a query that fails returns    *)
(* nothing.                                                                *)
(***************************************************************************)
\* the buckets of the page the request in flight asks for
AnswerData == IF Answer.data # Undefined THEN Answer.data[1] ELSE <<>>

C19_Step ==
    /\ Fetching /\ Fetching' /\ (pc = "backoff" \/ pc' = "backoff") =>
           /\ allChunkBuckets' = allChunkBuckets
           /\ allBuckets' = allBuckets
           /\ pageCount' = pageCount
           /\ nextPage' = nextPage
    /\ Fetching /\ pc = "request" /\ pc' = "request" /\ i' = i =>
           /\ allChunkBuckets' = allChunkBuckets \o AnswerData
           /\ allBuckets' = allBuckets
           /\ pageCount' = pageCount + 1
    /\ Fetching /\ pc = "request" /\ (pc' = "done" \/ i' = i + 1) =>
           /\ allBuckets' = allBuckets \o allChunkBuckets \o AnswerData
           /\ chunkPages' = Append(chunkPages, pageCount + 1)
    /\ Fetching /\ pc' = "failed" => result' = NoResult

C19_Counted ==
    Fetching =>
        /\ allChunkBuckets = UpstreamPages(i, pageCount)
        /\ PageOf(request) = pageCount + 1

C19_NoDoubleCounting == [](C19_Counted) /\ [][C19_Step]_vars

\* a page with buckets was received at its third attempt, after another page
C19_Witness ==
    /\ Fetching /\ pc = "request"
    /\ pageCount = 2 /\ attempt = 1 /\ maxAttempt = 3
    /\ Len(allChunkBuckets) >= 2

(***************************************************************************)
(* The loop over allBuckets alone (openai.ts 349-401), on a collected list *)
(* that ends with one usage entry in one of the two shapes.                *)
(***************************************************************************)
ShapeModels == {Undefined, Some("gpt-4o"), Some("gpt-4o-mini")}
ShapeInputTokens == {Undefined, Some(0), Some(100)}
ShapeOutputTokens == {Undefined, Some(0), Some(50)}
ShapeRequests == {Undefined, Some(0), Some(2)}

ShapeEntries ==
    {UsageEntry(m, inp, out, r) : m \in ShapeModels, inp \in ShapeInputTokens,
                                  out \in ShapeOutputTokens, r \in ShapeRequests}

\* what was collected before the entry: nothing, or a bucket of the same model
ShapePrefixes == {<<>>, <<WrapperBucket(<<Entries.A>>)>>}

InitShape ==
    /\ provider = "openai"
    /\ query = CHOOSE q \in Queries : q.workspace # Undefined /\ q.projectId = Undefined
                                        /\ q.endDate.day = 2
    /\ keyOk = TRUE
    /\ seed = 0
    /\ avail = <<1>>
    /\ upstream = NoUpstream
    /\ pc = "collected"
    /\ \E prefix \in ShapePrefixes, e \in ShapeEntries :
          allBuckets \in {prefix \o <<FlatBucket(e)>>, prefix \o <<WrapperBucket(<<e>>)>>}
    /\ acc = EmptyAcc
    /\ timeChunks = <<>> /\ i = 0 /\ allChunkBuckets = <<>>
    /\ nextPage = Undefined /\ pageCount = 0 /\ attempt = 0 /\ request = NoRequest
    /\ caught = NoFailure /\ result = NoResult /\ error = NoError /\ delays = <<>>
    /\ chunkPages = <<>> /\ maxAttempt = 0
    /\ InitCache

\* getCosts from the collected list to the filled modelMap
AggregateBuckets ==
    /\ pc = "collected"
    /\ acc' = ParseBuckets(EmptyAcc, allBuckets)
    /\ pc' = "aggregated"
    /\ UNCHANGED <<upstreamVars, timeChunks, i, allBuckets, allChunkBuckets, nextPage,
                   pageCount, attempt, request, caught, result, error, delays,
                   chunkPages, maxAttempt>>

NextShape == AggregateBuckets

SpecShape == InitShape /\ [][NextShape]_vars

(***************************************************************************)
(* C20.  Shape normalisation: a collected list that ends with the flat     *)
(* bucket of a usage entry E is aggregated to the same modelMap and the    *)
(* same totals of input tokens, output tokens and requests as the list     *)
(* that ends with the wrapper bucket whose results list is <<E>>.          *)
(***************************************************************************)
\* the entry a flat bucket is
EntryOfFlat(bucket) ==
    UsageEntry(bucket.model, bucket.input_tokens, bucket.output_tokens,
               bucket.num_model_requests)

\* what the update of the accumulator is about
Aggregated(a) ==
    [modelMap |-> a.modelMap, totalInputTokens |-> a.totalInputTokens,
     totalOutputTokens |-> a.totalOutputTokens, totalRequests |-> a.totalRequests]

C20_ShapeNormalisation ==
    pc = "aggregated" /\ allBuckets[Len(allBuckets)].results = Undefined =>
        LET last == allBuckets[Len(allBuckets)]
            prefix == SubSeq(allBuckets, 1, Len(allBuckets) - 1)
            wrapped == prefix \o <<WrapperBucket(<<EntryOfFlat(last)>>)>>
        IN  Aggregated(acc) = Aggregated(ParseBuckets(EmptyAcc, wrapped))

(***************************************************************************)
(* C21.  Malformed response: a received page whose body has no 'data' list *)
(* adds no bucket, counts as one page and aborts neither the window nor    *)
(* the query; the window goes on or ends as has_more and next_page of that *)
(* body say.                                                               *)
(***************************************************************************)
\* the step in which the answer to the request in flight is taken in
PageTakenIn == Fetching /\ pc = "request" /\ pc' \in {"request", "done"}

C21_Step ==
    PageTakenIn /\ Answer.data = Undefined =>
        /\ IF i' = i /\ pc' = "request"
           THEN /\ Answer.has_more /\ Answer.next_page # Undefined
                /\ allChunkBuckets' = allChunkBuckets
                /\ pageCount' = pageCount + 1
                /\ request'.page = Answer.next_page
           ELSE /\ ~ Answer.has_more \/ Answer.next_page = Undefined
                   \/ pageCount + 1 >= 50
                /\ allBuckets' = allBuckets \o allChunkBuckets
                /\ chunkPages' = Append(chunkPages, pageCount + 1)

\* no query is over because of a body without a 'data' list
C21_NoAbort ==
    provider = "openai" /\ pc = "failed" => error.cause.kind # "nullbody"

C21_MalformedResponse == [](C21_NoAbort) /\ [][C21_Step]_vars

(***************************************************************************)
(* C22.  Most specific prefix wins: a model identifier that is no key of   *)
(* the pricing table and starts with one or more of its keys is priced     *)
(* with the tuple of the longest key that is a prefix of it.               *)
(***************************************************************************)
PrefixKeys(model) == {key \in TableKeys : StartsWith(model, key)}

LongestPrefixKey(model) ==
    CHOOSE key \in PrefixKeys(model) :
        \A other \in PrefixKeys(model) : Len(Chars[other]) <= Len(Chars[key])

C22_MostSpecificPrefix ==
    pc = "priced" =>
        LET m == acc.modelMap[1]
            resolved == OpenAIPricing(m.model)
        IN  m.model \notin TableKeys /\ PrefixKeys(m.model) # {} =>
                /\ <<resolved.input, resolved.output>>
                       = TupleOfKey(LongestPrefixKey(m.model))
                /\ result.breakdown[1].cost_usd
                       = m.inputTokens * TupleOfKey(LongestPrefixKey(m.model))[1]
                           + m.outputTokens * TupleOfKey(LongestPrefixKey(m.model))[2]

(***************************************************************************)
(* C23.  Tier pricing of ElevenLabsProvider.getCosts: the cost returned is *)
(* the character count times the rate of the account's tier when the tier  *)
(* is a key of PRICING_PER_1000_CHARS, the 'free' tier with its rate 0     *)
(* included, and times the 'default' rate only when it is no key.          *)
(***************************************************************************)
TierKeys == {PRICING_PER_1000_CHARS[k].key : k \in DOMAIN PRICING_PER_1000_CHARS}

RateOfKey(key) ==
    PRICING_PER_1000_CHARS[CHOOSE k \in DOMAIN PRICING_PER_1000_CHARS :
                               PRICING_PER_1000_CHARS[k].key = key].price

C23_TierPricing ==
    provider = "elevenlabs" /\ pc = "done" =>
        LET tier == ToLowerCase(Tier(upstream.user, upstream.subscription))
            characters == result.breakdown[1].requests
            rate == IF tier \in TierKeys THEN RateOfKey(tier) ELSE RateOfKey("default")
        IN  /\ result.breakdown[1].cost_usd = characters * rate
            /\ result.total_cost_usd = characters * rate

(***************************************************************************)
(* C24.  Cache validity: an entry is valid when its age is at most the     *)
(* TTL, the age equal to the TTL included; getFromCache and                *)
(* getCacheTimestamp answer for a key exactly when the key has a valid     *)
(* entry, and a lookup of a key whose entry is invalid removes the entry.  *)
(***************************************************************************)
C24_Step ==
    /\ returned' # returned /\ returned'.op = "getFromCache"
           /\ returned'.ttl = DEFAULT_TTL =>
          /\ returned'.value # Undefined <=> FreshEntry(returned'.key)
          /\ FreshEntry(returned'.key) => returned'.value = Some(cache[returned'.key].data)
          /\ ~ FreshEntry(returned'.key) => returned'.key \notin DOMAIN cache'
    /\ returned' # returned /\ returned'.op = "getCacheTimestamp" =>
          /\ returned'.value # Undefined <=> FreshEntry(returned'.key)
          /\ ~ FreshEntry(returned'.key) => returned'.key \notin DOMAIN cache'

C24_CacheValidity == [][C24_Step]_vars

(***************************************************************************)
(* Two GET /api/costs requests in one process.  Each GET is followed over  *)
(* the awaits of its getCosts call: the call has its own provider instance *)
(* (getProvider calls the factory) and its own locals, and is resumed once *)
(* for each page the upstream answers.                                     *)
(***************************************************************************)
ConcurrentRequests == {1, 2}

ConcurrentQueries ==
    { RouteQuery(Some(<<"openai">>), Some(<<"ws">>), Undefined, Some(DateJan1), Some(DateJan31)),
      RouteQuery(Some(<<"openai">>), Some(<<"ws">>), Some(<<"undefined">>),
                 Some(DateJan1), Some(DateJan31)),
      RouteQuery(Some(<<"openai">>), Some(<<"ws">>), Some(<<"proj", "_", "a">>),
                 Some(DateJan1), Some(DateJan31)),
      RouteQuery(Some(<<"openai">>), Some(<<"ws", "_", "proj">>), Some(<<"a">>),
                 Some(DateJan1), Some(DateJan31)) }

\* the data set the upstream holds for the workspace and project of a query
QuerySeed(q) ==
    (IF OrUndefined(q.project_id) = Undefined THEN 0 ELSE Len(q.project_id[1]))
        + (IF Len(q.workspace[1]) > 1 THEN 1 ELSE 0)

\* the pages of the one window of a query
QueryPages == 2

\* the buckets of page p of the query
QueryPage(q, p) ==
    IF PageHasData(QuerySeed(q), 1, p) THEN PageData(QuerySeed(q), 1, p) ELSE <<>>

RECURSIVE QueryBuckets(_, _)
QueryBuckets(q, n) == IF n = 0 THEN <<>> ELSE QueryBuckets(q, n - 1) \o QueryPage(q, n)

\* what getCosts returns for the query when it runs alone
AloneResult(q) == CostDataFrom(QueryBuckets(q, QueryPages))

\* a faulty variant: the list of buckets is one list of the module
LocalsOf_Shared(r) == 1

\* const allBuckets = [] is a local of getCosts: one list for each call
LocalsOf(r) == r

IdleCall ==
    [pc |-> "idle", query |-> <<>>, cacheKey |-> <<>>, response |-> NoResponse,
     allBuckets |-> <<>>, pageCount |-> 0]

InitConcurrent ==
    /\ provider = "openai"
    /\ query = CHOOSE q \in Queries : q.workspace # Undefined /\ q.projectId = Undefined
                                         /\ q.endDate.day = 2
    /\ keyOk = TRUE
    /\ seed = 0
    /\ avail = <<QueryPages>>
    /\ upstream = NoUpstream
    /\ InitLocals
    /\ cache = <<>>
    /\ now = 0
    /\ route = [r \in ConcurrentRequests |-> IdleCall]
    /\ returned = NoCall

\* GET up to the first await of getCosts
ConcurrentGet(r, q) ==
    /\ route[r].pc # "getCosts"
    /\ Validate(q) = 0
    /\ route' = [route EXCEPT ![r] =
                    [pc |-> "getCosts", query |-> q, cacheKey |-> CacheKeyOf(q),
                     response |-> NoResponse, allBuckets |-> <<>>, pageCount |-> 0]]
    /\ UNCHANGED <<getCostsVars, cache, now, returned>>

\* a page of the call arrives and another is asked for
ConcurrentPageReceived(r) ==
    /\ route[r].pc = "getCosts"
    /\ route[r].pageCount + 1 < QueryPages
    /\ route' = [route EXCEPT
                    ![LocalsOf(r)].allBuckets =
                        @ \o QueryPage(route[r].query, route[r].pageCount + 1),
                    ![r].pageCount = @ + 1]
    /\ UNCHANGED <<getCostsVars, cache, now, returned>>

\* the last page arrives: getCosts returns, setCache(cacheKey, costData), the answer
ConcurrentReturned(r) ==
    /\ route[r].pc = "getCosts"
    /\ route[r].pageCount + 1 = QueryPages
    /\ LET buckets == route[LocalsOf(r)].allBuckets \o QueryPage(route[r].query, QueryPages)
           costData == CostDataFrom(buckets)
       IN  /\ cache' = setCache(cache, route[r].cacheKey, costData, now)
           /\ returned' = [op |-> "setCache", key |-> route[r].cacheKey, ttl |-> 0,
                           data |-> costData, value |-> Undefined, at |-> now]
           /\ route' = [route EXCEPT
                           ![LocalsOf(r)].allBuckets = buckets,
                           ![r].pageCount = @ + 1,
                           ![r].pc = "responded",
                           ![r].response = [status |-> 200, body |-> costData]]
    /\ UNCHANGED <<getCostsVars, now>>

\* a request of the call fails: getCosts throws, the catch block answers 500
ConcurrentFailed(r) ==
    /\ route[r].pc = "getCosts"
    /\ route' = [route EXCEPT ![r].pc = "responded",
                              ![r].response = [status |-> 500, body |-> NoResult]]
    /\ UNCHANGED <<getCostsVars, cache, now, returned>>

NextConcurrent ==
    \/ \E r \in ConcurrentRequests, q \in ConcurrentQueries : ConcurrentGet(r, q)
    \/ \E r \in ConcurrentRequests : ConcurrentPageReceived(r)
    \/ \E r \in ConcurrentRequests : ConcurrentReturned(r)
    \/ \E r \in ConcurrentRequests : ConcurrentFailed(r)

SpecConcurrent == InitConcurrent /\ [][NextConcurrent]_vars

(***************************************************************************)
(* C25.  Cache key identity: two queries that the route gives the same     *)
(* cache key agree on provider, workspace, project, start date and end     *)
(* date, an absent workspace or project being different from every         *)
(* present one.                                                            *)
(***************************************************************************)
SameQuery(q1, q2) ==
    /\ q1.provider = q2.provider
    /\ OrUndefined(q1.workspace) = OrUndefined(q2.workspace)
    /\ OrUndefined(q1.project_id) = OrUndefined(q2.project_id)
    /\ q1.start_date = q2.start_date
    /\ q1.end_date = q2.end_date

C25_CacheKeyIdentity ==
    \A r1, r2 \in ConcurrentRequests :
        /\ route[r1].pc # "idle" /\ route[r2].pc # "idle"
        /\ route[r1].cacheKey = route[r2].cacheKey
        => SameQuery(route[r1].query, route[r2].query)

(***************************************************************************)
(* C26.  Concurrent queries do not interfere: a GET that answers 200       *)
(* answers with the CostData its query gets when it runs alone; an entry   *)
(* of the cache is the whole CostData of one query that has that key, and  *)
(* the one stored by the setCache that came last; a GET that fails leaves  *)
(* the cache as it was.                                                    *)
(***************************************************************************)
AloneResults == [q \in ConcurrentQueries |-> AloneResult(q)]

C26_Isolated ==
    /\ \A r \in ConcurrentRequests :
          route[r].pc = "responded" /\ route[r].response.status = 200 =>
              route[r].response.body = AloneResults[route[r].query]
    /\ \A key \in DOMAIN cache :
          /\ \E q \in ConcurrentQueries :
                CacheKeyOf(q) = key /\ cache[key].data = AloneResults[q]
          /\ returned.op = "setCache" /\ returned.key = key =>
                cache[key].data = returned.data

C26_Step ==
    \A r \in ConcurrentRequests :
        route[r].pc = "getCosts" /\ route'[r].pc = "responded"
            /\ route'[r].response.status = 500 => cache' = cache

C26_NoInterference == [](C26_Isolated) /\ [][C26_Step]_vars

\* two queries of one key ran interleaved; the one that returned last is cached
C26_Witness ==
    /\ route[1].pc = "responded" /\ route[1].response.status = 200
    /\ route[2].pc = "responded" /\ route[2].response.status = 200
    /\ route[1].query # route[2].query
    /\ route[1].cacheKey = route[2].cacheKey
    /\ route[1].response.body # route[2].response.body
    /\ cache[route[1].cacheKey].data = route[1].response.body

(***************************************************************************)
(* C27.  Explicit eviction and frame: after invalidateCache(k) a           *)
(* getFromCache(k) returns null, and the entries of the other keys are as  *)
(* before; after clearAllCache() a getFromCache of any key returns null;   *)
(* getFromCache(k) adds no entry and leaves the entries of the other keys  *)
(* as they were.                                                           *)
(***************************************************************************)
OtherEntriesKept(key) ==
    /\ DOMAIN cache' \ {key} = DOMAIN cache \ {key}
    /\ \A k \in DOMAIN cache \ {key} : cache'[k] = cache[k]

C27_Step ==
    /\ returned' # returned /\ returned'.op = "invalidateCache" =>
          /\ returned'.key \notin DOMAIN cache'
          /\ OtherEntriesKept(returned'.key)
          /\ getFromCache(cache', returned'.key, DEFAULT_TTL, now').value = Undefined
    /\ returned' # returned /\ returned'.op = "clearAllCache" =>
          /\ cache' = <<>>
          /\ \A k \in CacheKeys : getFromCache(cache', k, DEFAULT_TTL, now').value = Undefined
    /\ returned.op \in {"invalidateCache", "clearAllCache"}
          /\ returned'.op = "getFromCache"
          /\ (returned.op = "invalidateCache" => returned'.key = returned.key) =>
          returned'.value = Undefined
    /\ returned' # returned /\ returned'.op = "getFromCache" =>
          /\ DOMAIN cache' \subseteq DOMAIN cache
          /\ OtherEntriesKept(returned'.key)

C27_EvictionFrame == [][C27_Step]_vars

\* a key was invalidated while another key has an entry that is still valid
C27_Witness ==
    /\ returned.op = "invalidateCache"
    /\ returned.key \notin DOMAIN cache
    /\ \E k \in DOMAIN cache :
          k # returned.key /\ cache[k].data # NoResult /\ FreshEntry(k)

(***************************************************************************)
(* C28.  Degenerate range: for a query of a workspace whose end date is    *)
(* not after its start date, OpenAIProvider.getCosts builds no window,     *)
(* sends no usage request, whether or not the key of the workspace is      *)
(* configured, and returns the CostData with total_cost_usd 0 and an empty *)
(* breakdown; it does not throw.                                           *)
(***************************************************************************)
DegenerateRange ==
    /\ provider = "openai" /\ query.workspace # Undefined
    /\ ToTimestamp(query.endDate) <= ToTimestamp(query.startDate)

C28_DegenerateRange ==
    DegenerateRange =>
        /\ pc \in {"start", "done"}
        /\ timeChunks = <<>>
        /\ request = NoRequest /\ attempt = 0 /\ pageCount = 0 /\ chunkPages = <<>>
        /\ error = NoError
        /\ pc = "done" =>
              /\ result.total_cost_usd = 0
              /\ result.breakdown = <<>>

\* the call returned for a range that ends before it starts, with no key configured
C28_Witness ==
    /\ DegenerateRange /\ pc = "done"
    /\ ToTimestamp(query.endDate) < ToTimestamp(query.startDate)
    /\ ~ keyOk
    /\ result = [total_cost_usd |-> 0, breakdown |-> <<>>]

(***************************************************************************)
(* POST /api/collect for one target month, up to the windows the OpenAI    *)
(* adapter asks the upstream for (collect/route.ts 90-98 and 131-137,      *)
(* openai.ts 172-192).  A calendar date is its day since the epoch, an     *)
(* instant its seconds since the epoch; the server's time zone is a whole  *)
(* number of hours east of UTC.                                            *)
(***************************************************************************)
\* the months of 2024 and 2025, by their lengths
MonthLengths ==
    <<31, 29, 31, 30, 31, 30, 31, 31, 30, 31, 30, 31,
      31, 28, 31, 30, 31, 30, 31, 31, 30, 31, 30, 31>>

TargetMonths == DOMAIN MonthLengths

\* the day since the epoch of the first day of the month; 2024-01-01 is
\* 54 years and 13 leap days after 1970-01-01
RECURSIVE FirstDayOf(_)
FirstDayOf(m) ==
    IF m = 1 THEN 54 * 365 + 13 ELSE FirstDayOf(m - 1) + MonthLengths[m - 1]

LastDayOf(m) == FirstDayOf(m) + MonthLengths[m] - 1

TimeZones == {-8, -5, 0, 1, 9}

\* new Date(year, monthIndex, day): midnight of the day in local time
LocalMidnight(day, zone) == day * SECONDS_PER_DAY - zone * 3600

\* date.toISOString().split('T')[0]: the calendar date of the instant in UTC
ISODatePart(instant) == instant \div SECONDS_PER_DAY

\* startDateStr and endDateStr of the month
CollectStartDate(m, zone) == ISODatePart(LocalMidnight(FirstDayOf(m), zone))
CollectEndDate(m, zone) == ISODatePart(LocalMidnight(LastDayOf(m), zone))

InitCollect ==
    /\ provider = "openai"
    /\ query = CHOOSE q \in Queries : q.workspace # Undefined /\ q.projectId = Undefined
                                         /\ q.endDate.day = 2
    /\ keyOk = TRUE
    /\ seed = 0
    /\ avail = <<>>
    /\ upstream = NoUpstream
    /\ InitLocals
    /\ cache = <<>>
    /\ now = 0
    /\ \E m \in TargetMonths, zone \in TimeZones :
          route = [r \in RouteRequests |-> [pc |-> "collect", month |-> m, zone |-> zone]]
    /\ returned = NoCall

\* POST computes the range of the month and calls getCosts for a workspace
\* (projectId '' is falsy: all projects); getCosts generates its time chunks
CollectGetCosts(r) ==
    /\ route[r].pc = "collect"
    /\ pc = "start"
    /\ query' = [workspace |-> Some("production"), projectId |-> Undefined,
                 startDate |-> Midnight(CollectStartDate(route[r].month, route[r].zone)),
                 endDate |-> Midnight(CollectEndDate(route[r].month, route[r].zone))]
    /\ timeChunks' = TimeChunks(ToTimestamp(query'.startDate), ToTimestamp(query'.endDate))
    /\ pc' = "chunked"
    /\ route' = [route EXCEPT ![r].pc = "getCosts"]
    /\ UNCHANGED <<provider, keyOk, seed, avail, upstream, i, allBuckets, allChunkBuckets,
                   nextPage, pageCount, attempt, request, caught, acc, result, error,
                   delays, chunkPages, maxAttempt, cache, now, returned>>

NextCollect == \E r \in RouteRequests : CollectGetCosts(r)

SpecCollect == InitCollect /\ [][NextCollect]_vars

(***************************************************************************)
(* C29.  Monthly collection covers the whole month: the windows the OpenAI *)
(* adapter asks for on behalf of POST /api/collect cover every day of the  *)
(* target month, from the start of its first day to the end of its last.   *)
(***************************************************************************)
\* the windows cover the whole of the day
DayCovered(day) ==
    \A t \in {day * SECONDS_PER_DAY, (day + 1) * SECONDS_PER_DAY - 1} :
        \E w \in DOMAIN timeChunks : timeChunks[w].start <= t /\ t < timeChunks[w].end

C29_MonthCovered ==
    \A r \in RouteRequests :
        route[r].pc = "getCosts" =>
            \A day \in FirstDayOf(route[r].month) .. LastDayOf(route[r].month) :
                DayCovered(day)

(***************************************************************************)
(* AnthropicProvider.getWorkspaces and getProjects (anthropic.ts 91-137    *)
(* and 145-203).  pc is "getWorkspaces" or "getProjects" at the call,      *)
(* "listing" while a page is awaited.  The list that is built is followed  *)
(* by its length i, which like pageCount is counted up to MaxListingPages. *)
(* The upstream holds a listing of some pages, or one whose pages all      *)
(* report has_more; it may leave out last_id, or the data of the first     *)
(* page.                                                                   *)
(***************************************************************************)
MaxListingPages == 3

ListingUpstreams ==
    [pages : 1..MaxListingPages, endless : BOOLEAN, lastId : BOOLEAN, firstHasData : BOOLEAN]

\* the number of the page the upstream serves after the page named after_id;
\* the listing without end goes round two pages
ListingPageAfter(u, afterId) ==
    IF afterId = Undefined THEN 1
    ELSE IF u.endless THEN (afterId[1] % 2) + 1
    ELSE afterId[1] + 1

\* the body of the answer to the request with the given after_id
ListingBody(u, afterId) ==
    LET k == ListingPageAfter(u, afterId)
    IN  [hasData |-> k > 1 \/ u.firstHasData,
         has_more |-> u.endless \/ k < u.pages,
         last_id |-> IF u.lastId THEN Some(k) ELSE Undefined]

\* nextPage = data.has_more ? data.last_id : null
NextAfterId(body) == IF body.has_more THEN body.last_id ELSE Undefined

\* a counter that is followed up to MaxListingPages
CountedUp(n) == IF n < MaxListingPages THEN n + 1 ELSE n

\* /organizations/workspaces or /organizations/api_keys, with after_id
ListingRequest(endpoint, afterId) == [endpoint |-> endpoint, page |-> afterId]

\* getProjects(workspace) with no workspace
MissingWorkspace == pc = "getProjects" /\ query.workspace = Undefined

InitListing ==
    /\ provider = "anthropic"
    /\ query \in AdapterQueries
    /\ keyOk \in BOOLEAN
    /\ seed = 0 /\ avail = <<>>
    /\ upstream \in ListingUpstreams
    /\ pc \in {"getWorkspaces", "getProjects"}
    /\ timeChunks = <<>> /\ i = 0 /\ allBuckets = <<>> /\ allChunkBuckets = <<>>
    /\ nextPage = Undefined /\ pageCount = 0 /\ attempt = 0 /\ request = NoRequest
    /\ caught = NoFailure /\ acc = EmptyAcc /\ result = NoResult /\ error = NoError
    /\ delays = <<>> /\ chunkPages = <<>> /\ maxAttempt = 0
    /\ InitCache

ListingVars == <<upstreamVars, timeChunks, allBuckets, allChunkBuckets, attempt, caught,
                 acc, result, delays, chunkPages, maxAttempt>>

\* the first answer must hold a data list; a later page without one is skipped
ListingAccepted == request.page # Undefined \/ ListingBody(upstream, request.page).hasData

\* workspaces.push(...pageData.data.map(...)) when the page holds a data list
ListingPushed == IF ListingBody(upstream, request.page).hasData THEN CountedUp(i) ELSE i

\* getProjects without a workspace throws before the try block
ListingNoWorkspace ==
    /\ provider = "anthropic"
    /\ MissingWorkspace
    /\ Throw("workspace", NoFailure)
    /\ UNCHANGED upstreamVars

\* getAdminApiKey throws inside the try block: the catch block wraps the error
ListingNoKey ==
    /\ pc \in {"getWorkspaces", "getProjects"} /\ provider = "anthropic"
    /\ ~ MissingWorkspace
    /\ ~ keyOk
    /\ Throw("wrapped", NoKeyFailure)
    /\ UNCHANGED upstreamVars

\* getWorkspaces, or getProjects of a workspace, up to the first await
ListingFirstRequest ==
    /\ pc \in {"getWorkspaces", "getProjects"} /\ provider = "anthropic"
    /\ ~ MissingWorkspace
    /\ keyOk
    /\ request' = ListingRequest(IF pc = "getWorkspaces" THEN "workspaces" ELSE "api_keys",
                                 Undefined)
    /\ pc' = "listing"
    /\ UNCHANGED <<ListingVars, i, nextPage, pageCount, error>>

\* the first answer has no data list: the empty list is returned
ListingUnexpectedFormat ==
    /\ pc = "listing" /\ provider = "anthropic"
    /\ request.page = Undefined
    /\ ~ ListingBody(upstream, request.page).hasData
    /\ pc' = "done"
    /\ UNCHANGED <<ListingVars, i, nextPage, pageCount, request, error>>

\* a page arrives and names a next one: while (nextPage) asks for it
ListingPageReceivedMore ==
    /\ pc = "listing" /\ provider = "anthropic"
    /\ ListingAccepted
    /\ NextAfterId(ListingBody(upstream, request.page)) # Undefined
    /\ i' = ListingPushed
    /\ pageCount' = CountedUp(pageCount)
    /\ nextPage' = NextAfterId(ListingBody(upstream, request.page))
    /\ request' = ListingRequest(request.endpoint, nextPage')
    /\ UNCHANGED <<ListingVars, pc, error>>

\* a page arrives and names no next one: the list is returned
ListingPageReceivedLast ==
    /\ pc = "listing" /\ provider = "anthropic"
    /\ ListingAccepted
    /\ NextAfterId(ListingBody(upstream, request.page)) = Undefined
    /\ i' = ListingPushed
    /\ pageCount' = CountedUp(pageCount)
    /\ nextPage' = Undefined
    /\ pc' = "done"
    /\ UNCHANGED <<ListingVars, request, error>>

\* a request fails: the catch block wraps the error and throws
ListingFailed(f) ==
    /\ pc = "listing" /\ provider = "anthropic"
    /\ Throw("wrapped", f)
    /\ UNCHANGED upstreamVars

NextListing ==
    \/ ListingNoWorkspace
    \/ ListingNoKey
    \/ ListingFirstRequest
    \/ ListingUnexpectedFormat
    \/ ListingPageReceivedMore
    \/ ListingPageReceivedLast
    \/ \E f \in AdapterFailures : ListingFailed(f)

\* every call runs on, and every request is answered or fails
SpecListing == InitListing /\ [][NextListing]_vars /\ WF_vars(NextListing)

(***************************************************************************)
(* C30.  Listing termination: when every request is answered, also by an   *)
(* upstream that reports has_more with a last_id on every page,            *)
(* getWorkspaces and getProjects end: they return or throw.                *)
(***************************************************************************)
C30_ListingTerminates == <>(pc \in {"done", "failed"})

=============================================================================
